---------------------------- MODULE Spec2Model ----------------------------
(***************************************************************************)
(* VirtIO transport and drivers of the RISC-V web server firmware:         *)
(*   firmware/src/virtio_blk.c   block driver (request queue req_queue)    *)
(*   firmware/src/virtio_blk.h   lines 209-626: virtio_net.c, the FIFO     *)
(*                               network driver (tx_queue, rx_queue)       *)
(* The driver runs in one execution context whose position is pc; the      *)
(* devices are the environment and act between any two driver steps.       *)
(* A driver step is one of the places where the device can observe or      *)
(* change shared memory: descriptor setup, ring slot write, fence, index   *)
(* increment, queue notify, used-ring poll.                                *)
(***************************************************************************)
EXTENDS Integers, Sequences, FiniteSets, TLC

(***************************************************************************)
(* Program constants.                                                      *)
(***************************************************************************)
QUEUE_SIZE == 16
MAX_SECTORS_PER_REQ == 128
VIRTIO_BLK_SECTOR_SIZE == 512
BUF_SIZE == 2048
VIRTIO_BLK_T_IN == 0
VIRTIO_BLK_T_OUT == 1
VIRTIO_BLK_T_FLUSH == 4
VIRTIO_BLK_S_OK == 0
VIRTIO_BLK_S_IOERR == 1
VIRTIO_BLK_S_UNSUPP == 2
STATUS_SENTINEL == 255
VRING_DESC_F_NEXT == 1
VRING_DESC_F_WRITE == 2
QUEUE_REQUEST == 0
QUEUE_TX == 0
QUEUE_RX == 1
FREE_LIST_END == 65535
REQ_HEADER_SIZE == 16
TWO16 == 65536

(***************************************************************************)
(* Addresses of the static buffers the descriptors point to.  Only their   *)
(* identity matters; tx_buffers[i] is TX_BUF_BASE + i, rx_buffers[i] is    *)
(* RX_BUF_BASE + i.                                                        *)
(***************************************************************************)
ADDR_REQ_HEADER == 1
ADDR_REQ_STATUS == 2
ADDR_DATA_BUFFER == 3
TX_BUF_BASE == 100
RX_BUF_BASE == 200

(***************************************************************************)
(* Bounds of the model.                                                    *)
(***************************************************************************)
BlkCapacity == 131      \* sectors the block device reports in its config
MaxBlkReq == 4          \* block chains submitted in a "blk" behaviour
MaxTx == 6              \* TX chains submitted in a "tx" behaviour
MaxIrqTx == 1           \* TX chains submitted in an "irq" behaviour
MaxIrqRx == 1           \* RX buffers completed in an "irq" behaviour
MaxIrqDrain == 3        \* RX last_used_idx up to which an "irq" behaviour runs
MaxPreemptTx == 2       \* TX chains submitted in a behaviour of SpecPreempt
MaxNestReq == 2         \* block chains submitted in a behaviour of SpecNested
MaxNestRx == 2          \* RX buffers completed in a behaviour of SpecNested
MaxWakeTx == 2          \* TX chains submitted in a behaviour of SpecWake
MaxWakeRx == 2          \* RX buffers completed in a behaviour of SpecWake
MaxOtherIrq == 1        \* times a source without a handler becomes pending
MaxEcho == 2            \* frames transmitted in an "echo" behaviour
MaxRxMix == 2           \* RX buffers completed in a "rxmix" behaviour
MaxTxFull == 1          \* TX chains submitted in a "txfull" behaviour
MaxTxWrap == 4          \* TX chains submitted in a "txwrap" behaviour
MaxRx == 18             \* RX buffers completed in an "rx" behaviour
MaxBsizeReq == 2        \* block chains submitted in a "bsize" behaviour
MaxViolReq == 1         \* chains submitted, and RX buffers completed, in a
                        \* "violblk" or "violnet" behaviour
MaxViolDrain == 1       \* used entries beyond used.idx up to which a
                        \* "violnet" behaviour is followed
MaxRangeReq == 1        \* block chains submitted in a "range" behaviour
MaxBlkSeq == 49         \* block chains submitted in a "blkseq" behaviour:
                        \* three times the ring and one more
WrapStart == 65534      \* TX indices when a "txwrap" behaviour starts
MaxAll == 3             \* chains on the three queues together in an "all"
                        \* behaviour

DescIdx == 0 .. (QUEUE_SIZE - 1)
U16(x) == x % TWO16
Min(a, b) == IF a < b THEN a ELSE b

VARIABLES
    req_queue,        \* struct virtqueue req_queue (virtio_blk.c)
    tx_queue,         \* struct virtqueue tx_queue  (virtio_net.c)
    rx_queue,         \* struct virtqueue rx_queue  (virtio_net.c)
    req_header,       \* struct virtio_blk_req req_header
    req_status,       \* uint8_t req_status
    data_buffer,      \* data_buffer, one value per sector slot
    blk_initialized,
    blk_capacity,
    blk_sector_size,
    tx_buffers,       \* tx_buffers[QUEUE_SIZE]: prefix bytes and payload
    rx_buffers,       \* rx_buffers[QUEUE_SIZE]
    disk,             \* the block device's medium, one value per sector
    blk_int,          \* block device InterruptStatus register
    net_int,          \* FIFO device InterruptStatus register
    pc,               \* position of the driver context
    loc,              \* locals of the active driver calls
    ret,              \* what the last finished driver call returned
    rbuf,             \* the caller's buffer of the last read call
    mmio_w,           \* register write made by the latest driver step
    fenced,           \* per queue: avail.idx value whose slot write is fenced
    notified,         \* per queue: avail.idx when queue-notify was last written
    reqlog,           \* sub-requests submitted by the current block call
    input_log,        \* frames handed to netif->input by the current pass
    nsub,             \* per queue: chains submitted so far in this behaviour
    call,             \* the latest driver call: operation and arguments
    lastw,            \* the latest write call that returned 0, if the medium
                      \* has not been written since
    scenario,         \* which callers and devices are active in this behaviour
    trap,             \* the trap in progress, if any, with the context it
                      \* interrupted, and the interrupt controller's pending set
    hs                \* bring-up: the devices' status and queue registers as
                      \* written, what the devices answer, the position of
                      \* main() and of the running initialization

vars == <<req_queue, tx_queue, rx_queue, req_header, req_status, data_buffer,
          blk_initialized, blk_capacity, blk_sector_size, tx_buffers,
          rx_buffers, disk, blk_int, net_int, pc, loc, ret, rbuf, mmio_w,
          fenced, notified, reqlog, input_log, nsub, call, lastw, scenario,
          trap, hs>>

blkvars == <<req_queue, req_header, req_status, data_buffer, blk_initialized,
             blk_capacity, blk_sector_size, disk, blk_int, rbuf, reqlog>>
netvars == <<tx_queue, rx_queue, tx_buffers, rx_buffers, net_int, input_log>>

Queues == {"blk", "tx", "rx"}
Q(q) == CASE q = "blk" -> req_queue
          [] q = "tx"  -> tx_queue
          [] q = "rx"  -> rx_queue

(***************************************************************************)
(* init_queue: memset to zero, descriptors chained 0 -> 1 -> ... -> 15,    *)
(* terminator 0xFFFF, everything free.                                     *)
(***************************************************************************)
init_queue ==
    [descs |-> [i \in DescIdx |->
                  [addr |-> 0, len |-> 0, flags |-> 0,
                   next |-> IF i < QUEUE_SIZE - 1 THEN i + 1 ELSE FREE_LIST_END]],
     avail_idx |-> 0,
     avail_ring |-> [i \in DescIdx |-> 0],
     used_idx |-> 0,
     used_ring |-> [i \in DescIdx |-> [id |-> 0, len |-> 0]],
     last_used_idx |-> 0,
     num_free |-> QUEUE_SIZE,
     free_head |-> 0]

(***************************************************************************)
(* The three stores that publish a chain head (avail.ring[idx % 16] =      *)
(* head; mb(); avail.idx++), each a step of its own.                       *)
(***************************************************************************)
\* Variant of the slot write below that masks the index with half the ring
\* size; C26 distinguishes it from the code.
RingWrite_HalfMask(q, head) ==
    [q EXCEPT !.avail_ring[q.avail_idx % (QUEUE_SIZE \div 2)] = head]

RingWrite(q, head) ==
    [q EXCEPT !.avail_ring[q.avail_idx % QUEUE_SIZE] = head]

\* Variant of the increment below that stores avail.idx back unchanged, so
\* the chain written to the ring is never published; C11 distinguishes it
\* from the code.
IdxIncrement_Lost(q) == q

IdxIncrement(q) == [q EXCEPT !.avail_idx = U16(q.avail_idx + 1)]

(***************************************************************************)
(* setup_rx_buffers: QUEUE_SIZE / 2 descriptors popped from the free list, *)
(* descriptor i bound to rx_buffers[i] and posted.                         *)
(***************************************************************************)
SetupRxOne(q, i) ==
    LET desc_idx == q.free_head
        q1 == [q EXCEPT !.free_head = q.descs[desc_idx].next,
                        !.num_free = q.num_free - 1,
                        !.descs[desc_idx] = [addr |-> RX_BUF_BASE + i,
                                             len |-> BUF_SIZE,
                                             flags |-> VRING_DESC_F_WRITE,
                                             next |-> 0]]
    IN IdxIncrement(RingWrite(q1, desc_idx))

RECURSIVE SetupRxUpTo(_, _)
SetupRxUpTo(q, n) ==
    IF n = 0 THEN q ELSE SetupRxOne(SetupRxUpTo(q, n - 1), n - 1)

setup_rx_buffers(q) == SetupRxUpTo(q, QUEUE_SIZE \div 2)

NoWrite == [dev |-> "none", reg |-> "none", val |-> 0]
Notify(dev, queue) == [dev |-> dev, reg |-> "QueueNotify", val |-> queue]
IntAck(dev, v) == [dev |-> dev, reg |-> "InterruptACK", val |-> v]

NoLoc == [op |-> "none", type |-> 0, sector |-> 0, count |-> 0, off |-> 0,
          n |-> 0, len |-> 0, tag |-> 0, desc0 |-> 0, desc1 |-> 0,
          desc2 |-> 0, rc |-> 0, frame |-> 0]

NoCall == [op |-> "none", sector |-> 0, count |-> 0, tag |-> 0]
BlkCallOf(op, sector, count, tag) ==
    [op |-> op, sector |-> sector, count |-> count, tag |-> tag]

\* no trap in progress, nothing pending at the interrupt controller; cb:
\* the receive loops that are inside netif->input, innermost last
NoTrap == [active |-> FALSE, pc |-> "idle", loc |-> NoLoc, irq |-> 0,
           pend |-> {}, done |-> 0, nother |-> 0, cb |-> << >>]

NoPayload == [id |-> 0, len |-> 0]
EmptySlot == [b0 |-> 0, b1 |-> 0, payload |-> NoPayload]

(***************************************************************************)
(* Scenarios.  A behaviour drives one queue deeply ("blk": chunked block   *)
(* transfers; "blkseq": many short block requests; "tx"; "rx"), or starts  *)
(* with TxBacklog transmitted frames the device has not yet completed and  *)
(* goes on from there ("txfull"), or starts after WrapStart frames were     *)
(* transmitted, completed and reclaimed one at a time, so that the 16-bit  *)
(* indices are about to wrap ("txwrap"; "blkwrap" is the same for block    *)
(* requests), has a block device that reported a block size of its own     *)
(* ("bsize"), is called with sectors from both ends of the 64-bit range    *)
(* ("range"), has a device that breaks the protocol ("violblk",            *)
(* "violnet", "violid"), or drives the three queues together with few      *)
(* requests each ("all").                                                  *)
(***************************************************************************)
Scenarios == {"blk", "blkseq", "blkwrap", "bsize", "range", "violblk", "tx",
              "txfull", "txwrap", "rx", "rxmix", "violnet", "violid", "echo",
              "all", "irq"}

BacklogFrame == [len |-> 60, id |-> 1]

\* TX chains already pending when "txfull" starts: a full ring
TxBacklog == QUEUE_SIZE

\* the TX queue after n calls of virtio_net_output(BacklogFrame) with the
\* device idle: n times descriptor pop and setup, ring write, index increment
RECURSIVE TxAfter(_, _)
TxAfter(q, n) ==
    IF n = 0 THEN q
    ELSE LET q1 == TxAfter(q, n - 1)
             q2 == [q1 EXCEPT !.free_head = q1.descs[q1.free_head].next,
                              !.num_free = q1.num_free - 1,
                              !.descs[q1.free_head].addr = TX_BUF_BASE + q1.free_head,
                              !.descs[q1.free_head].len = BacklogFrame.len + 2,
                              !.descs[q1.free_head].flags = 0]
         IN IdxIncrement(RingWrite(q2, q1.free_head))

StartBacklog == IF scenario = "txfull" THEN TxBacklog ELSE 0

\* after n cycles of transmit, completion and reclaim with one frame pending
\* at a time, descriptor 0 is back at the head of the free list and the
\* three indices are n
TxCycled(q, n) ==
    [q EXCEPT !.avail_idx = U16(n), !.used_idx = U16(n), !.last_used_idx = U16(n)]

TxStart ==
    CASE scenario = "txfull" -> TxAfter(init_queue, TxBacklog)
      [] scenario = "txwrap" -> TxCycled(init_queue, WrapStart)
      [] OTHER -> init_queue

\* what a block device may hold in the block size field of its
\* configuration space: nothing, the default, or a larger block
ReportedBlockSizes == {0, VIRTIO_BLK_SECTOR_SIZE, 2 * VIRTIO_BLK_SECTOR_SIZE,
                       8 * VIRTIO_BLK_SECTOR_SIZE}

\* if (bsize > 0) blk_sector_size = bsize;
SectorSizeOf(cur, bsize) == IF bsize > 0 THEN bsize ELSE cur

\* a block chain is pushed back in the order it was allocated, so after n
\* requests the free list of the request queue is as initialized and the
\* three indices are n; what is left in the descriptors and ring slots is
\* overwritten by the next request before it is read
BlkStart ==
    IF scenario = "blkwrap" THEN TxCycled(init_queue, WrapStart) ELSE init_queue

(***************************************************************************)
(* Device initialization.  virtio_blk_init and virtio_init probe the       *)
(* device and then make a fixed sequence of register writes, with the      *)
(* queue memory set up in between.  The device keeps what was written: its *)
(* status register, the queue selected, and per queue the size, the three  *)
(* addresses and the ready flag.                                           *)
(***************************************************************************)
VIRTIO_STATUS_ACK == 1
VIRTIO_STATUS_DRIVER == 2
VIRTIO_STATUS_DRIVER_OK == 4
VIRTIO_STATUS_FEATURES_OK == 8
VIRTIO_MAGIC == 1953655158
VIRTIO_VERSION == 2
VIRTIO_ID_BLOCK == 2
VIRTIO_ID_FIFO == 31
QUEUE_MEM_BASE == 300

QueuesOf(d) == IF d = "blk" THEN {"blk"} ELSE {"tx", "rx"}
QueueSelOf(q) == CASE q = "blk" -> QUEUE_REQUEST
                   [] q = "tx" -> QUEUE_TX
                   [] q = "rx" -> QUEUE_RX

\* addresses of q.descs (part 0), q.avail (1) and q.used (2)
QueueAddr(q, part) ==
    QUEUE_MEM_BASE + 10 * (CASE q = "blk" -> 0 [] q = "tx" -> 1 [] q = "rx" -> 2)
        + part

NoQueueRegs == [num |-> 0, desc |-> 0, avail |-> 0, used |-> 0, ready |-> 0]
QueueRegsDone(q) == [num |-> QUEUE_SIZE, desc |-> QueueAddr(q, 0),
                     avail |-> QueueAddr(q, 1), used |-> QueueAddr(q, 2),
                     ready |-> 1]

\* one step of an initialization: a register write ("write") or a step on
\* memory
InitStep(k, reg, val) == [k |-> k, reg |-> reg, val |-> val]

\* Variant of the queue configuration below that stops before the ready
\* flag; C20 distinguishes it from the code.
QueueConfig_NoReady(q) ==
    <<InitStep("init_queue", q, 0),
      InitStep("write", "QueueSel", QueueSelOf(q)),
      InitStep("write", "QueueNum", QUEUE_SIZE),
      InitStep("write", "QueueDescLow", QueueAddr(q, 0)),
      InitStep("write", "QueueDescHigh", 0),
      InitStep("write", "QueueAvailLow", QueueAddr(q, 1)),
      InitStep("write", "QueueAvailHigh", 0),
      InitStep("write", "QueueUsedLow", QueueAddr(q, 2)),
      InitStep("write", "QueueUsedHigh", 0)>>

\* init_queue and the nine writes that configure one queue
QueueConfig(q) ==
    <<InitStep("init_queue", q, 0),
      InitStep("write", "QueueSel", QueueSelOf(q)),
      InitStep("write", "QueueNum", QUEUE_SIZE),
      InitStep("write", "QueueDescLow", QueueAddr(q, 0)),
      InitStep("write", "QueueDescHigh", 0),
      InitStep("write", "QueueAvailLow", QueueAddr(q, 1)),
      InitStep("write", "QueueAvailHigh", 0),
      InitStep("write", "QueueUsedLow", QueueAddr(q, 2)),
      InitStep("write", "QueueUsedHigh", 0),
      InitStep("write", "QueueReady", 1)>>

\* reset, acknowledge, driver
StatusPrologue ==
    <<InitStep("write", "Status", 0),
      InitStep("write", "Status", VIRTIO_STATUS_ACK),
      InitStep("write", "Status", VIRTIO_STATUS_ACK + VIRTIO_STATUS_DRIVER)>>

\* the driver feature words, then FEATURES_OK
FeatureWrites ==
    <<InitStep("write", "DriverFeaturesSel", 1),
      InitStep("write", "DriverFeatures", 1),
      InitStep("write", "DriverFeaturesSel", 0),
      InitStep("write", "DriverFeatures", 0),
      InitStep("write", "Status", VIRTIO_STATUS_ACK + VIRTIO_STATUS_DRIVER
                                    + VIRTIO_STATUS_FEATURES_OK)>>

\* what virtio_blk_init does once the probe has passed
BlkInitProgram ==
    StatusPrologue \o <<InitStep("read_config", "blk", 0)>> \o FeatureWrites
        \o QueueConfig("blk")
        \o <<InitStep("write", "Status",
                      VIRTIO_STATUS_ACK + VIRTIO_STATUS_DRIVER
                          + VIRTIO_STATUS_FEATURES_OK + VIRTIO_STATUS_DRIVER_OK),
             InitStep("return", "blk", 0)>>

\* what virtio_init does once the probe has passed
NetInitProgram ==
    StatusPrologue \o FeatureWrites \o QueueConfig("tx") \o QueueConfig("rx")
        \o <<InitStep("setup_rx_buffers", "rx", 0),
             InitStep("write", "Status",
                      VIRTIO_STATUS_ACK + VIRTIO_STATUS_DRIVER
                          + VIRTIO_STATUS_FEATURES_OK + VIRTIO_STATUS_DRIVER_OK),
             InitStep("return", "net", 0)>>

InitProgram(d) == IF d = "blk" THEN BlkInitProgram ELSE NetInitProgram

\* the device's registers after one write
RegWrite(h, d, reg, val) ==
    LET q == CHOOSE x \in QueuesOf(d) :
                 QueueSelOf(x) = h.sel[d] \/ QueuesOf(d) = {x}
    IN CASE reg = "Status" /\ val = 0 ->
              [h EXCEPT !.status[d] = 0, !.nfeat[d] = 0, !.sel[d] = 0,
                        !.rej[d] = FALSE,
                        !.regs = [x \in Queues |->
                                    IF x \in QueuesOf(d) THEN NoQueueRegs
                                    ELSE h.regs[x]]]
         [] reg = "Status" /\ val # 0 -> [h EXCEPT !.status[d] = val]
         [] reg = "DriverFeatures" -> [h EXCEPT !.nfeat[d] = @ + 1]
         [] reg = "QueueSel" -> [h EXCEPT !.sel[d] = val]
         [] reg = "QueueNum" -> [h EXCEPT !.regs[q].num = val]
         [] reg = "QueueDescLow" -> [h EXCEPT !.regs[q].desc = val]
         [] reg = "QueueAvailLow" -> [h EXCEPT !.regs[q].avail = val]
         [] reg = "QueueUsedLow" -> [h EXCEPT !.regs[q].used = val]
         [] reg = "QueueReady" -> [h EXCEPT !.regs[q].ready = val]
         [] OTHER -> h

\* the registers after both initializations have succeeded
AfterInit ==
    [dev |-> "none", pos |-> 0, called |-> {"blk", "net"},
     status |-> [d \in {"blk", "net"} |->
                   VIRTIO_STATUS_ACK + VIRTIO_STATUS_DRIVER
                       + VIRTIO_STATUS_FEATURES_OK + VIRTIO_STATUS_DRIVER_OK],
     nfeat |-> [d \in {"blk", "net"} |-> 2],
     sel |-> [d \in {"blk", "net"} |->
                IF d = "blk" THEN QUEUE_REQUEST ELSE QUEUE_RX],
     regs |-> [q \in Queues |-> QueueRegsDone(q)],
     rej |-> [d \in {"blk", "net"} |-> FALSE],
     nummax |-> [q \in Queues |-> QUEUE_SIZE],
     reads |-> <<VIRTIO_MAGIC, VIRTIO_VERSION, VIRTIO_ID_BLOCK>>,
     main |-> "loop",
     owed |-> FALSE]

(***************************************************************************)
(* The state after virtio_blk_init and virtio_init have succeeded.         *)
(***************************************************************************)
Init ==
    /\ scenario \in Scenarios
    /\ req_queue = BlkStart
    /\ tx_queue = TxStart
    /\ rx_queue = setup_rx_buffers(init_queue)
    /\ req_header = [type |-> 0, reserved |-> 0, sector |-> 0]
    /\ req_status = 0
    /\ data_buffer = [i \in 0 .. (MAX_SECTORS_PER_REQ - 1) |-> 0]
    /\ blk_initialized = 1
    /\ blk_capacity = BlkCapacity
    /\ blk_sector_size \in
          {SectorSizeOf(VIRTIO_BLK_SECTOR_SIZE, bsize) : bsize \in
              IF scenario = "bsize" THEN ReportedBlockSizes ELSE {0}}
    /\ tx_buffers = [i \in DescIdx |->
                       IF i < StartBacklog
                       THEN [b0 |-> (BacklogFrame.len \div 256) % 256,
                             b1 |-> BacklogFrame.len % 256,
                             payload |-> BacklogFrame]
                       ELSE EmptySlot]
    /\ rx_buffers = [i \in DescIdx |-> EmptySlot]
    /\ disk = [s \in 0 .. (BlkCapacity - 1) |-> 0]
    /\ blk_int = 0
    /\ net_int = 0
    /\ pc = "idle"
    /\ loc = NoLoc
    /\ ret = 0
    /\ rbuf = [k \in {} |-> -1]
    /\ mmio_w = NoWrite
    /\ fenced = [q \in Queues |-> IF q = "rx" THEN QUEUE_SIZE \div 2
                                  ELSE IF q = "tx" THEN TxStart.avail_idx
                                  ELSE BlkStart.avail_idx]
    /\ notified = [q \in Queues |-> IF q = "rx" THEN QUEUE_SIZE \div 2
                                    ELSE IF q = "tx" THEN TxStart.avail_idx
                                    ELSE BlkStart.avail_idx]
    /\ reqlog = << >>
    /\ input_log = << >>
    /\ nsub = [q \in Queues |-> 0]
    /\ call = NoCall
    /\ lastw = NoCall
    /\ trap = NoTrap
    /\ hs = AfterInit


(***************************************************************************)
(* Helpers shared by the block driver's steps.                             *)
(***************************************************************************)
Return(rc) ==
    /\ pc' = "idle"
    /\ loc' = NoLoc
    /\ ret' = rc

(***************************************************************************)
(* uint64_t values.  The sectors that matter lie near the two ends of the  *)
(* 64-bit range; a value v below 2^31 is written v, a value within 2^31 of *)
(* 2^64 is written v - 2^64, a negative number.  On these the 64-bit sum   *)
(* is the sum of the two numbers (a sum that passes 2^64 comes out small   *)
(* and non-negative, which is the wrap), and the unsigned order puts every *)
(* negative number above every non-negative one.                           *)
(***************************************************************************)
Add64(a, b) == a + b

UGt64(a, b) == IF (a < 0) = (b < 0) THEN a > b ELSE a < 0

\* Variant of the range check below that looks at the first sector only;
\* C7 distinguishes it from the code.
RangeOk_FirstSector(sector, count) == sector < blk_capacity

\* sector + count > blk_capacity is rejected (virtio_blk_read/_write)
RangeOk(sector, count) == ~UGt64(Add64(sector, count), blk_capacity)

\* Variant of the chunk size below without the clamp; C9 distinguishes it
\* from the code.
ChunkSectors_Unclamped(count) == count

\* n = (count > MAX_SECTORS_PER_REQ) ? MAX_SECTORS_PER_REQ : count
ChunkSectors(count) ==
    IF count > MAX_SECTORS_PER_REQ THEN MAX_SECTORS_PER_REQ ELSE count

\* The caller's write buffer: pattern tag, one distinct value per sector.
Pat(tag, k) == tag * 1000 + k

SectorsOf(len) == len \div VIRTIO_BLK_SECTOR_SIZE

\* sector slot i of data_buffer; past its end lies other memory, read as 0
BufAt(i) == IF i \in DOMAIN data_buffer THEN data_buffer[i] ELSE 0

\* submit_request: three descriptors popped and set up as header -> data ->
\* status.
AllocRequestChain(q, type, len) ==
    LET desc0 == q.free_head
        desc1 == q.descs[desc0].next
        desc2 == q.descs[desc1].next
    IN [q EXCEPT
          !.free_head = q.descs[desc2].next,
          !.num_free = q.num_free - 3,
          !.descs[desc0] = [addr |-> ADDR_REQ_HEADER, len |-> REQ_HEADER_SIZE,
                            flags |-> VRING_DESC_F_NEXT, next |-> desc1],
          !.descs[desc1] = [addr |-> ADDR_DATA_BUFFER, len |-> len,
                            flags |-> IF type = VIRTIO_BLK_T_IN
                                      THEN VRING_DESC_F_WRITE + VRING_DESC_F_NEXT
                                      ELSE VRING_DESC_F_NEXT,
                            next |-> desc2],
          !.descs[desc2] = [addr |-> ADDR_REQ_STATUS, len |-> 1,
                            flags |-> VRING_DESC_F_WRITE, next |-> 0]]

\* Variant of the free below that pushes the three descriptors back in the
\* opposite order, desc2 first; C35 distinguishes it from the code.
FreeRequestChain_Reversed(q, desc0, desc1, desc2) ==
    [q EXCEPT !.descs[desc0].next = q.free_head,
              !.descs[desc1].next = desc0,
              !.descs[desc2].next = desc1,
              !.free_head = desc2,
              !.num_free = q.num_free + 3]

\* Variant of the free below that counts two descriptors back instead of
\* three; C1 distinguishes it from the code.
FreeRequestChain_CountTwo(q, desc0, desc1, desc2) ==
    [q EXCEPT !.descs[desc2].next = q.free_head,
              !.descs[desc1].next = desc2,
              !.descs[desc0].next = desc1,
              !.free_head = desc0,
              !.num_free = q.num_free + 2]

\* submit_request: the three descriptors pushed back, desc0 first.
FreeRequestChain(q, desc0, desc1, desc2) ==
    [q EXCEPT !.descs[desc2].next = q.free_head,
              !.descs[desc1].next = desc2,
              !.descs[desc0].next = desc1,
              !.free_head = desc0,
              !.num_free = q.num_free + 3]

\* virtio_blk_flush: two descriptors, header -> status.
AllocFlushChain(q) ==
    LET desc0 == q.free_head
        desc1 == q.descs[desc0].next
    IN [q EXCEPT
          !.free_head = q.descs[desc1].next,
          !.num_free = q.num_free - 2,
          !.descs[desc0] = [addr |-> ADDR_REQ_HEADER, len |-> REQ_HEADER_SIZE,
                            flags |-> VRING_DESC_F_NEXT, next |-> desc1],
          !.descs[desc1] = [addr |-> ADDR_REQ_STATUS, len |-> 1,
                            flags |-> VRING_DESC_F_WRITE, next |-> 0]]

FreeFlushChain(q, desc0, desc1) ==
    [q EXCEPT !.descs[desc1].next = q.free_head,
              !.descs[desc0].next = desc1,
              !.free_head = desc0,
              !.num_free = q.num_free + 2]

\* Variant of the status check below that reports success whatever the
\* status byte holds; C10 distinguishes it from the code.
StatusResult_Ignored(status) == 0

\* return value of submit_request / virtio_blk_flush after the chain is freed
StatusResult(status) == IF status # VIRTIO_BLK_S_OK THEN -1 ELSE 0

(***************************************************************************)
(* virtio_blk_read(sector, buf, count): validation, then the chunk loop.   *)
(***************************************************************************)
virtio_blk_read(sector, count) ==
    /\ pc = "idle"
    /\ reqlog' = << >>
    /\ mmio_w' = NoWrite
    /\ IF blk_initialized = 0 \/ count = 0 \/ ~RangeOk(sector, count)
       THEN /\ Return(-1)
            /\ rbuf' = [k \in {} |-> -1]
       ELSE /\ pc' = "rd_loop"
            /\ loc' = [NoLoc EXCEPT !.op = "read", !.sector = sector,
                                    !.count = count]
            /\ rbuf' = [k \in 0 .. (count - 1) |-> -1]
            /\ UNCHANGED ret
    /\ UNCHANGED <<req_queue, req_header, req_status, data_buffer,
                   blk_initialized, blk_capacity, blk_sector_size, disk,
                   blk_int, fenced, notified, nsub>>
    /\ call' = BlkCallOf("read", sector, count, 0)
    /\ UNCHANGED lastw
    /\ UNCHANGED <<netvars, scenario, trap, hs>>

\* while (count > 0) { n = ...; len = n * blk_sector_size; submit_request(
\* VIRTIO_BLK_T_IN, sector, data_buffer, len) ...
virtio_blk_read_loop ==
    /\ pc = "rd_loop"
    /\ mmio_w' = NoWrite
    /\ IF loc.count > 0
       THEN /\ pc' = "sr_entry"
            /\ loc' = [loc EXCEPT !.type = VIRTIO_BLK_T_IN,
                                  !.n = ChunkSectors(loc.count),
                                  !.len = ChunkSectors(loc.count) * blk_sector_size]
            /\ UNCHANGED ret
       ELSE Return(0)
    /\ UNCHANGED <<blkvars, fenced, notified, nsub>>
    /\ UNCHANGED <<netvars, scenario, trap, hs, call, lastw>>

\* ... if (submit_request(...) != 0) return -1; memcpy(p, data_buffer, len);
\* p += len; sector += n; count -= n; }
virtio_blk_read_ret ==
    /\ pc = "rd_ret"
    /\ mmio_w' = NoWrite
    /\ IF loc.rc # 0
       THEN /\ Return(-1)
            /\ UNCHANGED rbuf
       ELSE /\ rbuf' = [k \in DOMAIN rbuf |->
                         IF /\ k >= SectorsOf(loc.off)
                            /\ k < SectorsOf(loc.off) + SectorsOf(loc.len)
                         THEN BufAt(k - SectorsOf(loc.off))
                         ELSE rbuf[k]]
            /\ pc' = "rd_loop"
            /\ loc' = [loc EXCEPT !.off = loc.off + loc.len,
                                  !.sector = loc.sector + loc.n,
                                  !.count = loc.count - loc.n]
            /\ UNCHANGED ret
    /\ UNCHANGED <<req_queue, req_header, req_status, data_buffer,
                   blk_initialized, blk_capacity, blk_sector_size, disk,
                   blk_int, reqlog, fenced, notified, nsub>>
    /\ UNCHANGED <<netvars, scenario, trap, hs, call, lastw>>

(***************************************************************************)
(* virtio_blk_write(sector, buf, count); buf holds Pat(tag, k) in sector k.*)
(***************************************************************************)
virtio_blk_write(sector, count, tag) ==
    /\ pc = "idle"
    /\ reqlog' = << >>
    /\ rbuf' = [k \in {} |-> -1]
    /\ mmio_w' = NoWrite
    /\ IF blk_initialized = 0 \/ count = 0 \/ ~RangeOk(sector, count)
       THEN /\ Return(-1)
            /\ UNCHANGED lastw
       ELSE /\ lastw' = NoCall
            /\ pc' = "wr_loop"
            /\ loc' = [NoLoc EXCEPT !.op = "write", !.sector = sector,
                                    !.count = count, !.tag = tag]
            /\ UNCHANGED ret
    /\ UNCHANGED <<req_queue, req_header, req_status, data_buffer,
                   blk_initialized, blk_capacity, blk_sector_size, disk,
                   blk_int, fenced, notified, nsub>>
    /\ call' = BlkCallOf("write", sector, count, tag)
    /\ UNCHANGED <<netvars, scenario, trap, hs>>

\* while (count > 0) { n = ...; len = ...; memcpy(data_buffer, p, len);
\* submit_request(VIRTIO_BLK_T_OUT, sector, data_buffer, len) ...
virtio_blk_write_loop ==
    /\ pc = "wr_loop"
    /\ mmio_w' = NoWrite
    /\ IF loc.count > 0
       THEN LET n == ChunkSectors(loc.count)
                len == n * blk_sector_size
            IN /\ pc' = "sr_entry"
               /\ loc' = [loc EXCEPT !.type = VIRTIO_BLK_T_OUT, !.n = n,
                                     !.len = len]
               /\ data_buffer' =
                    [i \in DOMAIN data_buffer |->
                       IF i < SectorsOf(len)
                       THEN Pat(loc.tag, SectorsOf(loc.off) + i)
                       ELSE data_buffer[i]]
               /\ UNCHANGED <<ret, lastw>>
       ELSE /\ Return(0)
            /\ lastw' = call
            /\ UNCHANGED data_buffer
    /\ UNCHANGED <<req_queue, req_header, req_status, blk_initialized,
                   blk_capacity, blk_sector_size, disk, blk_int, rbuf, reqlog,
                   fenced, notified, nsub>>
    /\ UNCHANGED <<netvars, scenario, trap, hs, call>>

\* Variant of the loop tail below that advances the buffer and the count
\* but not the sector; C8 distinguishes it from the code.
virtio_blk_write_ret_samesector ==
    /\ pc = "wr_ret"
    /\ mmio_w' = NoWrite
    /\ IF loc.rc # 0
       THEN Return(-1)
       ELSE /\ pc' = "wr_loop"
            /\ loc' = [loc EXCEPT !.off = loc.off + loc.len,
                                  !.count = loc.count - loc.n]
            /\ UNCHANGED ret
    /\ UNCHANGED <<blkvars, fenced, notified, nsub>>
    /\ UNCHANGED <<netvars, scenario, trap, hs, call, lastw>>

\* ... if (submit_request(...) != 0) return -1; p += len; sector += n;
\* count -= n; }
virtio_blk_write_ret ==
    /\ pc = "wr_ret"
    /\ mmio_w' = NoWrite
    /\ IF loc.rc # 0
       THEN Return(-1)
       ELSE /\ pc' = "wr_loop"
            /\ loc' = [loc EXCEPT !.off = loc.off + loc.len,
                                  !.sector = loc.sector + loc.n,
                                  !.count = loc.count - loc.n]
            /\ UNCHANGED ret
    /\ UNCHANGED <<blkvars, fenced, notified, nsub>>
    /\ UNCHANGED <<netvars, scenario, trap, hs, call, lastw>>

(***************************************************************************)
(* submit_request(type, sector, buf, len), one action per step.            *)
(***************************************************************************)
SubmitReturnPc == IF loc.op = "read" THEN "rd_ret" ELSE "wr_ret"

\* initialized check, header, free-descriptor check, chain allocation and
\* descriptor setup, status sentinel
submit_request_entry ==
    /\ pc = "sr_entry"
    /\ mmio_w' = NoWrite
    /\ IF blk_initialized = 0
       THEN /\ pc' = SubmitReturnPc
            /\ loc' = [loc EXCEPT !.rc = -1]
            /\ UNCHANGED <<req_queue, req_header, req_status>>
       ELSE /\ req_header' = [type |-> loc.type, reserved |-> 0,
                              sector |-> loc.sector]
            /\ IF req_queue.num_free < 3
               THEN /\ pc' = SubmitReturnPc
                    /\ loc' = [loc EXCEPT !.rc = -1]
                    /\ UNCHANGED <<req_queue, req_status>>
               ELSE /\ req_queue' = AllocRequestChain(req_queue, loc.type, loc.len)
                    /\ req_status' = STATUS_SENTINEL
                    /\ loc' = [loc EXCEPT
                                 !.desc0 = req_queue.free_head,
                                 !.desc1 = req_queue.descs[req_queue.free_head].next,
                                 !.desc2 = req_queue.descs[
                                     req_queue.descs[req_queue.free_head].next].next]
                    /\ pc' = "sr_ring"
    /\ UNCHANGED <<data_buffer, blk_initialized, blk_capacity, blk_sector_size,
                   disk, blk_int, rbuf, reqlog, ret, fenced, notified, nsub>>
    /\ UNCHANGED <<netvars, scenario, trap, hs, call, lastw>>

\* req_queue.avail.ring[req_queue.avail.idx % QUEUE_SIZE] = head;
submit_request_ring ==
    /\ pc = "sr_ring"
    /\ req_queue' = RingWrite(req_queue, loc.desc0)
    /\ pc' = "sr_fence"
    /\ mmio_w' = NoWrite
    /\ UNCHANGED <<req_header, req_status, data_buffer, blk_initialized,
                   blk_capacity, blk_sector_size, disk, blk_int, rbuf, reqlog,
                   loc, ret, fenced, notified, nsub>>
    /\ UNCHANGED <<netvars, scenario, trap, hs, call, lastw>>

\* Variant of the step below without the barrier: the index increment
\* follows the slot write directly.  C3 distinguishes it from the code.
submit_request_nofence ==
    /\ pc = "sr_fence"
    /\ pc' = "sr_idx"
    /\ mmio_w' = NoWrite
    /\ UNCHANGED <<blkvars, loc, ret, fenced, notified, nsub>>
    /\ UNCHANGED <<netvars, scenario, trap, hs, call, lastw>>

\* mb();
submit_request_fence ==
    /\ pc = "sr_fence"
    /\ fenced' = [fenced EXCEPT !["blk"] = U16(req_queue.avail_idx + 1)]
    /\ pc' = "sr_idx"
    /\ mmio_w' = NoWrite
    /\ UNCHANGED <<blkvars, loc, ret, notified, nsub>>
    /\ UNCHANGED <<netvars, scenario, trap, hs, call, lastw>>

\* req_queue.avail.idx++;
submit_request_idx ==
    /\ pc = "sr_idx"
    /\ req_queue' = IdxIncrement(req_queue)
    /\ nsub' = [nsub EXCEPT !["blk"] = @ + 1]
    /\ reqlog' = Append(reqlog, [type |-> req_header.type,
                                 sector |-> req_header.sector,
                                 len |-> req_queue.descs[loc.desc1].len,
                                 off |-> loc.off])
    /\ pc' = "sr_notify"
    /\ mmio_w' = NoWrite
    /\ UNCHANGED <<req_header, req_status, data_buffer, blk_initialized,
                   blk_capacity, blk_sector_size, disk, blk_int, rbuf,
                   loc, ret, fenced, notified>>
    /\ UNCHANGED <<netvars, scenario, trap, hs, call, lastw>>

\* BLK_WRITE32(VIRTIO_MMIO_QUEUE_NOTIFY, QUEUE_REQUEST);
submit_request_notify ==
    /\ pc = "sr_notify"
    /\ mmio_w' = Notify("blk", QUEUE_REQUEST)
    /\ notified' = [notified EXCEPT !["blk"] = req_queue.avail_idx]
    /\ pc' = "sr_wait"
    /\ UNCHANGED <<blkvars, loc, ret, fenced, nsub>>
    /\ UNCHANGED <<netvars, scenario, trap, hs, call, lastw>>

(***************************************************************************)
(* wait_for_completion: spins while last_used_idx == used.idx, then        *)
(* acknowledges the interrupt status and advances last_used_idx.           *)
(***************************************************************************)
\* Variant of the wait condition below that compares with avail.idx, the
\* driver's own index, instead of used.idx; C5 distinguishes it from the
\* code.
WaitDone_AvailIdx(q) == q.last_used_idx # q.avail_idx

WaitDone(q) == q.last_used_idx # q.used_idx

\* Variant of wait_for_completion below that acknowledges the interrupt
\* but leaves last_used_idx where it was; C6 distinguishes it from the code.
wait_for_completion_noadvance ==
    /\ pc \in {"sr_wait", "fl_wait"}
    /\ WaitDone(req_queue)
    /\ IF blk_int # 0
       THEN /\ mmio_w' = IntAck("blk", blk_int)
            /\ blk_int' = 0
       ELSE /\ mmio_w' = NoWrite
            /\ UNCHANGED blk_int
    /\ pc' = IF pc = "sr_wait" THEN "sr_free" ELSE "fl_free"
    /\ UNCHANGED <<req_queue, req_header, req_status, data_buffer,
                   blk_initialized, blk_capacity, blk_sector_size, disk, rbuf,
                   reqlog, loc, ret, fenced, notified, nsub>>
    /\ UNCHANGED <<netvars, scenario, trap, hs, call, lastw>>

wait_for_completion ==
    /\ pc \in {"sr_wait", "fl_wait"}
    /\ WaitDone(req_queue)
    /\ IF blk_int # 0
       THEN /\ mmio_w' = IntAck("blk", blk_int)
            /\ blk_int' = 0
       ELSE /\ mmio_w' = NoWrite
            /\ UNCHANGED blk_int
    /\ req_queue' = [req_queue EXCEPT
                       !.last_used_idx = U16(req_queue.last_used_idx + 1)]
    /\ pc' = IF pc = "sr_wait" THEN "sr_free" ELSE "fl_free"
    /\ UNCHANGED <<req_header, req_status, data_buffer, blk_initialized,
                   blk_capacity, blk_sector_size, disk, rbuf, reqlog,
                   loc, ret, fenced, notified, nsub>>
    /\ UNCHANGED <<netvars, scenario, trap, hs, call, lastw>>

\* descriptors back on the free list, then the status check
submit_request_free ==
    /\ pc = "sr_free"
    /\ req_queue' = FreeRequestChain(req_queue, loc.desc0, loc.desc1, loc.desc2)
    /\ loc' = [loc EXCEPT !.rc = StatusResult(req_status)]
    /\ pc' = SubmitReturnPc
    /\ mmio_w' = NoWrite
    /\ UNCHANGED <<req_header, req_status, data_buffer, blk_initialized,
                   blk_capacity, blk_sector_size, disk, blk_int, rbuf, reqlog,
                   ret, fenced, notified, nsub>>
    /\ UNCHANGED <<netvars, scenario, trap, hs, call, lastw>>

(***************************************************************************)
(* virtio_blk_flush(), one action per step.                                *)
(***************************************************************************)
virtio_blk_flush ==
    /\ pc = "idle"
    /\ reqlog' = << >>
    /\ rbuf' = [k \in {} |-> -1]
    /\ mmio_w' = NoWrite
    /\ IF blk_initialized = 0
       THEN /\ Return(-1)
            /\ UNCHANGED <<req_queue, req_header, req_status>>
       ELSE /\ req_header' = [type |-> VIRTIO_BLK_T_FLUSH, reserved |-> 0,
                              sector |-> 0]
            /\ IF req_queue.num_free < 2
               THEN /\ Return(-1)
                    /\ UNCHANGED <<req_queue, req_status>>
               ELSE /\ req_queue' = AllocFlushChain(req_queue)
                    /\ req_status' = STATUS_SENTINEL
                    /\ loc' = [NoLoc EXCEPT
                                 !.op = "flush",
                                 !.type = VIRTIO_BLK_T_FLUSH,
                                 !.desc0 = req_queue.free_head,
                                 !.desc1 = req_queue.descs[req_queue.free_head].next]
                    /\ pc' = "fl_ring"
                    /\ UNCHANGED ret
    /\ UNCHANGED <<data_buffer, blk_initialized, blk_capacity, blk_sector_size,
                   disk, blk_int, fenced, notified, nsub>>
    /\ call' = BlkCallOf("flush", 0, 0, 0)
    /\ UNCHANGED lastw
    /\ UNCHANGED <<netvars, scenario, trap, hs>>

virtio_blk_flush_ring ==
    /\ pc = "fl_ring"
    /\ req_queue' = RingWrite(req_queue, loc.desc0)
    /\ pc' = "fl_fence"
    /\ mmio_w' = NoWrite
    /\ UNCHANGED <<req_header, req_status, data_buffer, blk_initialized,
                   blk_capacity, blk_sector_size, disk, blk_int, rbuf, reqlog,
                   loc, ret, fenced, notified, nsub>>
    /\ UNCHANGED <<netvars, scenario, trap, hs, call, lastw>>

virtio_blk_flush_fence ==
    /\ pc = "fl_fence"
    /\ fenced' = [fenced EXCEPT !["blk"] = U16(req_queue.avail_idx + 1)]
    /\ pc' = "fl_idx"
    /\ mmio_w' = NoWrite
    /\ UNCHANGED <<blkvars, loc, ret, notified, nsub>>
    /\ UNCHANGED <<netvars, scenario, trap, hs, call, lastw>>

virtio_blk_flush_idx ==
    /\ pc = "fl_idx"
    /\ req_queue' = IdxIncrement(req_queue)
    /\ nsub' = [nsub EXCEPT !["blk"] = @ + 1]
    /\ reqlog' = Append(reqlog, [type |-> req_header.type,
                                 sector |-> req_header.sector,
                                 len |-> 0, off |-> 0])
    /\ pc' = "fl_notify"
    /\ mmio_w' = NoWrite
    /\ UNCHANGED <<req_header, req_status, data_buffer, blk_initialized,
                   blk_capacity, blk_sector_size, disk, blk_int, rbuf,
                   loc, ret, fenced, notified>>
    /\ UNCHANGED <<netvars, scenario, trap, hs, call, lastw>>

virtio_blk_flush_notify ==
    /\ pc = "fl_notify"
    /\ mmio_w' = Notify("blk", QUEUE_REQUEST)
    /\ notified' = [notified EXCEPT !["blk"] = req_queue.avail_idx]
    /\ pc' = "fl_wait"
    /\ UNCHANGED <<blkvars, loc, ret, fenced, nsub>>
    /\ UNCHANGED <<netvars, scenario, trap, hs, call, lastw>>

\* descriptors back on the free list; return (req_status == OK) ? 0 : -1
virtio_blk_flush_free ==
    /\ pc = "fl_free"
    /\ req_queue' = FreeFlushChain(req_queue, loc.desc0, loc.desc1)
    /\ Return(StatusResult(req_status))
    /\ mmio_w' = NoWrite
    /\ UNCHANGED <<req_header, req_status, data_buffer, blk_initialized,
                   blk_capacity, blk_sector_size, disk, blk_int, rbuf, reqlog,
                   fenced, notified, nsub>>
    /\ UNCHANGED <<netvars, scenario, trap, hs, call, lastw>>

(***************************************************************************)
(* The block device.  It takes the next chain of the available ring in     *)
(* order, reads the header and the descriptors from memory as they are at  *)
(* that moment, performs the request or fails it (st is the status it      *)
(* reports; STATUS_SENTINEL stands for a device that completes the chain   *)
(* without writing the status byte), and publishes one used-ring entry.    *)
(***************************************************************************)
DeviceStatuses == {VIRTIO_BLK_S_OK, VIRTIO_BLK_S_IOERR, VIRTIO_BLK_S_UNSUPP,
                   STATUS_SENTINEL}

PushUsed(q, id, len) ==
    [q EXCEPT !.used_ring[q.used_idx % QUEUE_SIZE] = [id |-> id, len |-> len],
              !.used_idx = U16(q.used_idx + 1)]

DevBlk(st) ==
    /\ req_queue.used_idx # req_queue.avail_idx
    /\ LET head == req_queue.avail_ring[req_queue.used_idx % QUEUE_SIZE]
           type == req_header.type
           sector == req_header.sector
           data == req_queue.descs[head].next
           nsec == SectorsOf(req_queue.descs[data].len)
           doit == st = VIRTIO_BLK_S_OK
       IN /\ (doit /\ type # VIRTIO_BLK_T_FLUSH) =>
                (sector >= 0 /\ sector + nsec <= BlkCapacity)
          /\ data_buffer' =
               IF doit /\ type = VIRTIO_BLK_T_IN
               THEN [i \in DOMAIN data_buffer |->
                       IF i < nsec THEN disk[sector + i] ELSE data_buffer[i]]
               ELSE data_buffer
          /\ disk' =
               IF doit /\ type = VIRTIO_BLK_T_OUT
               THEN [s \in DOMAIN disk |->
                       IF s >= sector /\ s < sector + nsec
                       THEN BufAt(s - sector) ELSE disk[s]]
               ELSE disk
          /\ req_status' = IF st = STATUS_SENTINEL THEN req_status ELSE st
          /\ req_queue' =
               PushUsed(req_queue, head,
                        IF st = STATUS_SENTINEL THEN 0
                        ELSE IF doit /\ type = VIRTIO_BLK_T_IN
                             THEN req_queue.descs[data].len + 1 ELSE 1)
    /\ blk_int' = 1
    /\ UNCHANGED <<req_header, blk_initialized, blk_capacity, blk_sector_size,
                   rbuf, reqlog, pc, loc, ret, mmio_w, fenced, notified, nsub>>
    /\ UNCHANGED <<netvars, scenario, trap, hs, call, lastw>>

(***************************************************************************)
(* The block driver alone, with chunked transfers.                         *)
(***************************************************************************)
ChunksOf(count) == (count + MAX_SECTORS_PER_REQ - 1) \div MAX_SECTORS_PER_REQ

\* (sector, count) of the reads and writes explored: an empty one, a short
\* one, one of two chunks, and one that ends one sector past the capacity
BlkArgs == {[sector |-> 1, count |-> 0],
            [sector |-> 1, count |-> 2],
            [sector |-> 1, count |-> MAX_SECTORS_PER_REQ + 1],
            [sector |-> BlkCapacity - 1, count |-> 2]}
Tags == {1, 2}

BlkStep ==
    \/ submit_request_entry
    \/ submit_request_ring
    \/ submit_request_fence
    \/ submit_request_idx
    \/ submit_request_notify
    \/ wait_for_completion
    \/ submit_request_free
    \/ virtio_blk_read_loop
    \/ virtio_blk_read_ret
    \/ virtio_blk_write_loop
    \/ virtio_blk_write_ret
    \/ virtio_blk_flush_ring
    \/ virtio_blk_flush_fence
    \/ virtio_blk_flush_idx
    \/ virtio_blk_flush_notify
    \/ virtio_blk_flush_free

BlkCall ==
    /\ scenario = "blk"
    /\ \/ \E a \in BlkArgs :
            /\ nsub["blk"] + ChunksOf(a.count) <= MaxBlkReq
            /\ virtio_blk_read(a.sector, a.count)
       \/ \E a \in BlkArgs, tag \in Tags :
            /\ nsub["blk"] + ChunksOf(a.count) <= MaxBlkReq
            /\ virtio_blk_write(a.sector, a.count, tag)
       \/ /\ nsub["blk"] < MaxBlkReq
          /\ virtio_blk_flush

NextBlk ==
    \/ BlkCall
    \/ BlkStep
    \/ \E st \in DeviceStatuses : DevBlk(st)

InitBlk == Init /\ scenario = "blk"

SpecBlk == InitBlk /\ [][NextBlk]_vars


(***************************************************************************)
(* The network driver (virtio_net.c).  A frame is its length tot_len and   *)
(* an identifier standing for its bytes; a slot holds the two prefix bytes *)
(* and the payload that follows them.                                      *)
(***************************************************************************)
ERR_OK == 0
ERR_MEM == -1

HiByte(len) == (len \div 256) % 256
LoByte(len) == len % 256

\* Variant of the slot image below with the two prefix bytes in the other
\* order; C16 distinguishes it from the code.
FrameSlot_LittleEndian(f) ==
    [b0 |-> LoByte(f.len), b1 |-> HiByte(f.len),
     payload |-> [id |-> f.id, len |-> f.len]]

\* buf[0] = (tot_len >> 8) & 0xFF; buf[1] = tot_len & 0xFF; memcpy(buf + 2..)
FrameSlot(f) == [b0 |-> HiByte(f.len), b1 |-> LoByte(f.len),
                 payload |-> [id |-> f.id, len |-> f.len]]

\* Variant of the size check below that compares the frame with the whole
\* slot, forgetting the two bytes of the prefix; C12 distinguishes it from
\* the code.
FrameTooLarge_SlotSize(f) == f.len > BUF_SIZE

\* p->tot_len > BUF_SIZE - 2
FrameTooLarge(f) == f.len > BUF_SIZE - 2

\* tx_queue.num_free == 0
TxQueueFull(q) == q.num_free = 0

\* Variant of the pop below that leaves free_head where it was; C2
\* distinguishes it from the code.
AllocTxDesc_KeepHead(q, len) ==
    LET desc_idx == q.free_head
    IN [q EXCEPT !.num_free = q.num_free - 1,
                 !.descs[desc_idx].addr = TX_BUF_BASE + desc_idx,
                 !.descs[desc_idx].len = len + 2,
                 !.descs[desc_idx].flags = 0]

\* one descriptor popped from the TX free list and set up for the frame
AllocTxDesc(q, len) ==
    LET desc_idx == q.free_head
    IN [q EXCEPT !.free_head = q.descs[desc_idx].next,
                 !.num_free = q.num_free - 1,
                 !.descs[desc_idx].addr = TX_BUF_BASE + desc_idx,
                 !.descs[desc_idx].len = len + 2,
                 !.descs[desc_idx].flags = 0]

virtio_net_output(f) ==
    /\ pc = "idle"
    /\ mmio_w' = NoWrite
    /\ IF FrameTooLarge(f) \/ TxQueueFull(tx_queue)
       THEN /\ Return(ERR_MEM)
            /\ UNCHANGED <<tx_queue, tx_buffers>>
       ELSE /\ tx_queue' = AllocTxDesc(tx_queue, f.len)
            /\ tx_buffers' = [tx_buffers EXCEPT ![tx_queue.free_head] = FrameSlot(f)]
            /\ loc' = [NoLoc EXCEPT !.op = "tx", !.desc0 = tx_queue.free_head,
                                    !.frame = f.id, !.len = f.len]
            /\ pc' = "tx_ring"
            /\ UNCHANGED ret
    /\ UNCHANGED <<rx_queue, rx_buffers, net_int, input_log, fenced, notified,
                   nsub>>
    /\ call' = BlkCallOf("tx", 0, f.len, f.id)
    /\ UNCHANGED lastw
    /\ UNCHANGED <<blkvars, scenario, trap, hs>>

(***************************************************************************)
(* virtio_net_output at the granularity of its accesses to the free list,  *)
(* for the behaviours in which a trap can be taken inside it: the two      *)
(* checks and uint16_t desc_idx = tx_queue.free_head; first, then          *)
(* tx_queue.free_head = tx_queue.descs[desc_idx].next; tx_queue.num_free--; *)
(* with the copy of the frame and the set-up of the descriptor.  Taken     *)
(* one after the other they are the step virtio_net_output above.          *)
(***************************************************************************)
PopTxDesc(q, desc_idx, len) ==
    [q EXCEPT !.free_head = q.descs[desc_idx].next,
              !.num_free = q.num_free - 1,
              !.descs[desc_idx].addr = TX_BUF_BASE + desc_idx,
              !.descs[desc_idx].len = len + 2,
              !.descs[desc_idx].flags = 0]

virtio_net_output_head(f) ==
    /\ pc = "idle"
    /\ mmio_w' = NoWrite
    /\ IF FrameTooLarge(f) \/ TxQueueFull(tx_queue)
       THEN Return(ERR_MEM)
       ELSE /\ loc' = [NoLoc EXCEPT !.op = "tx", !.desc0 = tx_queue.free_head,
                                    !.frame = f.id, !.len = f.len]
            /\ pc' = "tx_pop"
            /\ UNCHANGED ret
    /\ UNCHANGED <<netvars, fenced, notified, nsub>>
    /\ call' = BlkCallOf("tx", 0, f.len, f.id)
    /\ UNCHANGED lastw
    /\ UNCHANGED <<blkvars, scenario, trap, hs>>

virtio_net_output_pop ==
    /\ pc = "tx_pop"
    /\ tx_queue' = PopTxDesc(tx_queue, loc.desc0, loc.len)
    /\ tx_buffers' = [tx_buffers EXCEPT
                        ![loc.desc0] = FrameSlot([len |-> loc.len, id |-> loc.frame])]
    /\ pc' = "tx_ring"
    /\ mmio_w' = NoWrite
    /\ UNCHANGED <<rx_queue, rx_buffers, net_int, input_log, loc, ret, fenced,
                   notified, nsub>>
    /\ UNCHANGED <<blkvars, scenario, trap, hs, call, lastw>>

\* tx_queue.avail.ring[tx_queue.avail.idx % QUEUE_SIZE] = desc_idx;
virtio_net_output_ring ==
    /\ pc = "tx_ring"
    /\ tx_queue' = RingWrite(tx_queue, loc.desc0)
    /\ pc' = "tx_fence"
    /\ mmio_w' = NoWrite
    /\ UNCHANGED <<rx_queue, tx_buffers, rx_buffers, net_int, input_log, loc,
                   ret, fenced, notified, nsub>>
    /\ UNCHANGED <<blkvars, scenario, trap, hs, call, lastw>>

\* mb();
virtio_net_output_fence ==
    /\ pc = "tx_fence"
    /\ fenced' = [fenced EXCEPT !["tx"] = U16(tx_queue.avail_idx + 1)]
    /\ pc' = "tx_idx"
    /\ mmio_w' = NoWrite
    /\ UNCHANGED <<netvars, loc, ret, notified, nsub>>
    /\ UNCHANGED <<blkvars, scenario, trap, hs, call, lastw>>

\* tx_queue.avail.idx++;
virtio_net_output_idx ==
    /\ pc = "tx_idx"
    /\ tx_queue' = IdxIncrement(tx_queue)
    /\ nsub' = [nsub EXCEPT !["tx"] = @ + 1]
    /\ pc' = "tx_notify"
    /\ mmio_w' = NoWrite
    /\ UNCHANGED <<rx_queue, tx_buffers, rx_buffers, net_int, input_log, loc,
                   ret, fenced, notified>>
    /\ UNCHANGED <<blkvars, scenario, trap, hs, call, lastw>>

\* VIRTIO_WRITE32(VIRTIO_MMIO_QUEUE_NOTIFY, QUEUE_TX); return ERR_OK;
virtio_net_output_notify ==
    /\ pc = "tx_notify"
    /\ mmio_w' = Notify("net", QUEUE_TX)
    /\ notified' = [notified EXCEPT !["tx"] = tx_queue.avail_idx]
    /\ Return(ERR_OK)
    /\ UNCHANGED <<netvars, fenced, nsub>>
    /\ UNCHANGED <<blkvars, scenario, trap, hs, call, lastw>>

(***************************************************************************)
(* virtio_net_poll: when InterruptStatus is nonzero, acknowledge it, then  *)
(* virtio_net_tx_complete, then virtio_net_input.                          *)
(***************************************************************************)
\* Variant of the poll below that acknowledges the status and returns
\* without draining; C34 distinguishes it from the code.
virtio_net_poll_ack_only ==
    /\ pc = "idle"
    /\ IF net_int # 0
       THEN /\ mmio_w' = IntAck("net", net_int)
            /\ net_int' = 0
       ELSE /\ mmio_w' = NoWrite
            /\ UNCHANGED net_int
    /\ UNCHANGED <<tx_queue, rx_queue, tx_buffers, rx_buffers, input_log, pc,
                   loc, ret, fenced, notified, nsub>>
    /\ call' = BlkCallOf("poll", 0, 0, 0)
    /\ UNCHANGED lastw
    /\ UNCHANGED <<blkvars, scenario, trap, hs>>

virtio_net_poll ==
    /\ pc = "idle"
    /\ IF net_int # 0
       THEN /\ mmio_w' = IntAck("net", net_int)
            /\ net_int' = 0
            /\ pc' = "txc_loop"
            /\ loc' = [NoLoc EXCEPT !.op = "poll"]
            /\ input_log' = << >>
       ELSE /\ mmio_w' = NoWrite
            /\ UNCHANGED <<net_int, pc, loc, input_log>>
    /\ UNCHANGED <<tx_queue, rx_queue, tx_buffers, rx_buffers, ret, fenced,
                   notified, nsub>>
    /\ call' = BlkCallOf("poll", 0, 0, 0)
    /\ UNCHANGED lastw
    /\ UNCHANGED <<blkvars, scenario, trap, hs>>

\* Variant of the reclaim below that reads the newest used entry instead
\* of the one at last_used_idx; C4 distinguishes it from the code.
ReclaimTxDesc_Newest(q) ==
    LET desc_idx == q.used_ring[U16(q.used_idx - 1) % QUEUE_SIZE].id
    IN [q EXCEPT !.descs[desc_idx].next = q.free_head,
                 !.free_head = desc_idx,
                 !.num_free = q.num_free + 1,
                 !.last_used_idx = U16(q.last_used_idx + 1)]

\* Variant of the reclaim below that links the descriptor into the free
\* list without counting it in num_free; C13 distinguishes it from the code.
ReclaimTxDesc_NoCount(q) ==
    LET desc_idx == q.used_ring[q.last_used_idx % QUEUE_SIZE].id
    IN [q EXCEPT !.descs[desc_idx].next = q.free_head,
                 !.free_head = desc_idx,
                 !.last_used_idx = U16(q.last_used_idx + 1)]

\* One used entry reclaimed: descs[desc_idx].next = free_head;
\* free_head = desc_idx; num_free++; last_used_idx++.
ReclaimTxDesc(q) ==
    LET desc_idx == q.used_ring[q.last_used_idx % QUEUE_SIZE].id
    IN [q EXCEPT !.descs[desc_idx].next = q.free_head,
                 !.free_head = desc_idx,
                 !.num_free = q.num_free + 1,
                 !.last_used_idx = U16(q.last_used_idx + 1)]

\* Variant of the reclaim loop below that returns one descriptor and goes
\* on to the receive pass, whatever else the device has completed; C17
\* distinguishes it from the code.
virtio_net_tx_complete_once ==
    /\ pc = "txc_loop"
    /\ mmio_w' = NoWrite
    /\ tx_queue' = IF tx_queue.last_used_idx # tx_queue.used_idx
                   THEN ReclaimTxDesc(tx_queue) ELSE tx_queue
    /\ pc' = "rx_loop"
    /\ UNCHANGED <<rx_queue, tx_buffers, rx_buffers, net_int, input_log, loc,
                   ret, fenced, notified, nsub>>
    /\ UNCHANGED <<blkvars, scenario, trap, hs, call, lastw>>

\* virtio_net_tx_complete: one evaluation of the loop condition, and one
\* iteration when it holds.
virtio_net_tx_complete ==
    /\ pc = "txc_loop"
    /\ mmio_w' = NoWrite
    /\ IF tx_queue.last_used_idx # tx_queue.used_idx
       THEN /\ tx_queue' = ReclaimTxDesc(tx_queue)
            /\ UNCHANGED pc
       ELSE /\ pc' = "rx_loop"
            /\ UNCHANGED tx_queue
    /\ UNCHANGED <<rx_queue, tx_buffers, rx_buffers, net_int, input_log, loc,
                   ret, fenced, notified, nsub>>
    /\ UNCHANGED <<blkvars, scenario, trap, hs, call, lastw>>

\* Variant of the slot choice below that takes the slot after the
\* descriptor's own; C37 distinguishes it from the code.
RxSlotIndex_Next(desc_idx) == (desc_idx + 1) % (QUEUE_SIZE \div 2)

\* the slot virtio_net_input reads for a used entry
RxSlotIndex(desc_idx) == desc_idx % (QUEUE_SIZE \div 2)

\* frame_len = (buf[0] << 8) | buf[1]
PrefixOf(slot) == slot.b0 * 256 + slot.b1

\* Variant of the check below that compares the prefix with the whole
\* written length, forgetting the two bytes of the prefix itself; C14
\* distinguishes it from the code.
RxFrameValid_WholeLen(slot, len) ==
    /\ len >= 2
    /\ PrefixOf(slot) > 0
    /\ PrefixOf(slot) <= len

\* len >= 2 and frame_len > 0 and frame_len <= len - 2
RxFrameValid(slot, len) ==
    /\ len >= 2
    /\ PrefixOf(slot) > 0
    /\ PrefixOf(slot) <= len - 2

\* the frame_len bytes that follow the prefix
RxPayload(slot) == [id |-> slot.payload.id, len |-> PrefixOf(slot)]

\* Variant of the refresh below that binds the descriptor to the slot after
\* its own; C36 distinguishes it from the code.
RepostDesc_NextSlot(q, desc_idx) ==
    [q EXCEPT !.descs[desc_idx].addr = RX_BUF_BASE + RxSlotIndex(desc_idx + 1),
              !.descs[desc_idx].len = BUF_SIZE,
              !.descs[desc_idx].flags = VRING_DESC_F_WRITE]

\* descriptor refreshed for the re-post: addr, len, flags
RepostDesc(q, desc_idx) ==
    [q EXCEPT !.descs[desc_idx].addr = RX_BUF_BASE + RxSlotIndex(desc_idx),
              !.descs[desc_idx].len = BUF_SIZE,
              !.descs[desc_idx].flags = VRING_DESC_F_WRITE]

\* virtio_net_input: one evaluation of the loop condition; when it holds,
\* the used entry is read, the frame validated and handed to netif->input
\* (pbuf_ok: pbuf_alloc succeeded), and the descriptor refreshed.
virtio_net_input(pbuf_ok) ==
    /\ pc = "rx_loop"
    /\ IF rx_queue.last_used_idx # rx_queue.used_idx
       THEN LET used_idx == rx_queue.last_used_idx % QUEUE_SIZE
                desc_idx == rx_queue.used_ring[used_idx].id
                len == rx_queue.used_ring[used_idx].len
                buf == rx_buffers[RxSlotIndex(desc_idx)]
            IN /\ input_log' =
                    IF RxFrameValid(buf, len) /\ pbuf_ok
                    THEN Append(input_log, RxPayload(buf))
                    ELSE input_log
               /\ rx_queue' = RepostDesc(rx_queue, desc_idx)
               /\ loc' = [loc EXCEPT !.desc0 = desc_idx, !.len = len]
               /\ pc' = "rx_ring"
               /\ mmio_w' = NoWrite
               /\ UNCHANGED <<ret, notified>>
       ELSE /\ pbuf_ok
            /\ mmio_w' = Notify("net", QUEUE_RX)
            /\ notified' = [notified EXCEPT !["rx"] = rx_queue.avail_idx]
            /\ pc' = IF trap.active THEN "trap_complete" ELSE "idle"
            /\ loc' = NoLoc
            /\ UNCHANGED <<rx_queue, input_log, ret>>
    /\ UNCHANGED <<tx_queue, tx_buffers, rx_buffers, net_int, fenced, nsub>>
    /\ UNCHANGED <<blkvars, scenario, trap, hs, call, lastw>>

\* rx_queue.avail.ring[rx_queue.avail.idx % QUEUE_SIZE] = desc_idx;
virtio_net_input_ring ==
    /\ pc = "rx_ring"
    /\ rx_queue' = RingWrite(rx_queue, loc.desc0)
    /\ pc' = "rx_fence"
    /\ mmio_w' = NoWrite
    /\ UNCHANGED <<tx_queue, tx_buffers, rx_buffers, net_int, input_log, loc,
                   ret, fenced, notified, nsub>>
    /\ UNCHANGED <<blkvars, scenario, trap, hs, call, lastw>>

\* mb();
virtio_net_input_fence ==
    /\ pc = "rx_fence"
    /\ fenced' = [fenced EXCEPT !["rx"] = U16(rx_queue.avail_idx + 1)]
    /\ pc' = "rx_idx"
    /\ mmio_w' = NoWrite
    /\ UNCHANGED <<netvars, loc, ret, notified, nsub>>
    /\ UNCHANGED <<blkvars, scenario, trap, hs, call, lastw>>

\* Variant of the step below that leaves avail.idx where it was, so the
\* buffer written to the ring is not handed back; C15 distinguishes it from
\* the code.
virtio_net_input_idx_lost ==
    /\ pc = "rx_idx"
    /\ pc' = "rx_adv"
    /\ mmio_w' = NoWrite
    /\ UNCHANGED <<netvars, loc, ret, fenced, notified, nsub>>
    /\ UNCHANGED <<blkvars, scenario, trap, hs, call, lastw>>

\* rx_queue.avail.idx++;
virtio_net_input_idx ==
    /\ pc = "rx_idx"
    /\ rx_queue' = IdxIncrement(rx_queue)
    /\ nsub' = [nsub EXCEPT !["rx"] = @ + 1]
    /\ pc' = "rx_adv"
    /\ mmio_w' = NoWrite
    /\ UNCHANGED <<tx_queue, tx_buffers, rx_buffers, net_int, input_log, loc,
                   ret, fenced, notified>>
    /\ UNCHANGED <<blkvars, scenario, trap, hs, call, lastw>>

\* rx_queue.last_used_idx++;
virtio_net_input_adv ==
    /\ pc = "rx_adv"
    /\ rx_queue' = [rx_queue EXCEPT
                      !.last_used_idx = U16(rx_queue.last_used_idx + 1)]
    /\ pc' = "rx_loop"
    /\ mmio_w' = NoWrite
    /\ UNCHANGED <<tx_queue, tx_buffers, rx_buffers, net_int, input_log, loc,
                   ret, fenced, notified, nsub>>
    /\ UNCHANGED <<blkvars, scenario, trap, hs, call, lastw>>

(***************************************************************************)
(* trap_handler.  A machine trap suspends the driver context where it is   *)
(* and runs trap_handler to its end; no second trap is taken meanwhile.    *)
(* For a machine external interrupt the handler claims a source from the   *)
(* interrupt controller, runs virtio_net_irq_handler when the source is    *)
(* the FIFO device, and completes the source when the claim was nonzero.   *)
(***************************************************************************)
VIRTIO_FIFO_INT_ID == 2
OTHER_INT_ID == 1
MCAUSE_MEI == 11
MCAUSE_MTI == 7

PlicComplete(irq) == [dev |-> "plic", reg |-> "ClaimComplete", val |-> irq]

\* trap entry, mcause read; is_interrupt with code 11 goes on to the claim,
\* another interrupt code leaves the handler at once
trap_handler(code) ==
    /\ ~trap.active
    /\ code = MCAUSE_MEI => trap.pend # {}
    /\ trap' = [trap EXCEPT !.active = TRUE, !.pc = pc, !.loc = loc,
                            !.irq = 0, !.done = 0]
    /\ pc' = IF code = MCAUSE_MEI THEN "trap_claim" ELSE "trap_ret"
    /\ loc' = NoLoc
    /\ mmio_w' = NoWrite
    /\ UNCHANGED <<blkvars, netvars, ret, fenced, notified, nsub, call, lastw,
                   scenario, hs>>

\* Variant of the claim below that goes on to the completion also when the
\* claim read 0; C19 distinguishes it from the code.
ClaimNextPc_Always(irq) ==
    IF irq = VIRTIO_FIFO_INT_ID THEN "irq_ack" ELSE "trap_complete"

\* if (irq != 0) { if (irq == VIRTIO_FIFO_INT_ID) handler; complete }
ClaimNextPc(irq) ==
    IF irq = 0 THEN "trap_ret"
    ELSE IF irq = VIRTIO_FIFO_INT_ID THEN "irq_ack" ELSE "trap_complete"

\* irq = plic_claim(): a pending source, which the read takes out of the
\* pending set, or 0
trap_handler_claim ==
    /\ pc = "trap_claim"
    /\ \E irq \in trap.pend \cup {0} :
         /\ trap' = [trap EXCEPT !.irq = irq, !.pend = @ \ {irq}]
         /\ pc' = ClaimNextPc(irq)
    /\ mmio_w' = NoWrite
    /\ UNCHANGED <<blkvars, netvars, loc, ret, fenced, notified, nsub, call,
                   lastw, scenario, hs>>

\* virtio_net_irq_handler: status read and acknowledge, whatever was read;
\* virtio_net_tx_complete and virtio_net_input follow
virtio_net_irq_handler ==
    /\ pc = "irq_ack"
    /\ mmio_w' = IntAck("net", net_int)
    /\ net_int' = 0
    /\ pc' = "txc_loop"
    /\ loc' = [NoLoc EXCEPT !.op = "irq"]
    /\ input_log' = << >>
    /\ UNCHANGED <<tx_queue, rx_queue, tx_buffers, rx_buffers, ret, fenced,
                   notified, nsub>>
    /\ UNCHANGED <<blkvars, scenario, trap, hs, call, lastw>>

\* plic_complete(irq)
trap_handler_complete ==
    /\ pc = "trap_complete"
    /\ mmio_w' = PlicComplete(trap.irq)
    /\ trap' = [trap EXCEPT !.done = @ + 1]
    /\ pc' = "trap_ret"
    /\ UNCHANGED <<blkvars, netvars, loc, ret, fenced, notified, nsub, call,
                   lastw, scenario, hs>>

\* return from trap_handler: the interrupted context goes on
trap_handler_ret ==
    /\ pc = "trap_ret"
    /\ pc' = trap.pc
    /\ loc' = trap.loc
    /\ trap' = [trap EXCEPT !.active = FALSE, !.pc = "idle", !.loc = NoLoc,
                            !.irq = 0, !.done = 0]
    /\ mmio_w' = NoWrite
    /\ UNCHANGED <<blkvars, netvars, ret, fenced, notified, nsub, call, lastw,
                   scenario, hs>>

TrapStep ==
    \/ \E code \in {MCAUSE_MEI, MCAUSE_MTI} : trap_handler(code)
    \/ trap_handler_claim
    \/ virtio_net_irq_handler
    \/ trap_handler_complete
    \/ trap_handler_ret

(***************************************************************************)
(* The interrupt controller.  The gateway of the FIFO source makes it      *)
(* pending while the device's InterruptStatus is nonzero, unless the       *)
(* source is claimed and not yet completed; another source may become      *)
(* pending at any time.                                                    *)
(***************************************************************************)
PlicGateway ==
    /\ net_int # 0
    /\ VIRTIO_FIFO_INT_ID \notin trap.pend
    /\ ~(trap.active /\ trap.irq = VIRTIO_FIFO_INT_ID)
    /\ trap' = [trap EXCEPT !.pend = @ \cup {VIRTIO_FIFO_INT_ID}]
    /\ UNCHANGED <<blkvars, netvars, pc, loc, ret, mmio_w, fenced, notified,
                   nsub, call, lastw, scenario, hs>>

PlicOther ==
    /\ trap.nother < MaxOtherIrq
    /\ OTHER_INT_ID \notin trap.pend
    /\ trap' = [trap EXCEPT !.pend = @ \cup {OTHER_INT_ID}, !.nother = @ + 1]
    /\ UNCHANGED <<blkvars, netvars, pc, loc, ret, mmio_w, fenced, notified,
                   nsub, call, lastw, scenario, hs>>

(***************************************************************************)
(* virtio_blk_init and virtio_init: the probe, then the program one step   *)
(* at a time.                                                              *)
(***************************************************************************)
\* the registers the probe reads, in the order it reads them: it stops at
\* the first of magic and version that is wrong
ProbeReads(magic, version, device_id) ==
    IF magic # VIRTIO_MAGIC THEN <<magic>>
    ELSE IF version # VIRTIO_VERSION THEN <<magic, version>>
    ELSE <<magic, version, device_id>>

ExpectedDeviceId(d) == IF d = "blk" THEN VIRTIO_ID_BLOCK ELSE VIRTIO_ID_FIFO

\* Variant of the probe's verdict below that accepts any device id; C23
\* distinguishes it from the code.
ProbeOk_AnyDevice(d, reads) == Len(reads) = 3

\* the probe passes when all three registers were read and the last is the
\* device id of this driver
ProbeOk(d, reads) == Len(reads) = 3 /\ reads[3] = ExpectedDeviceId(d)

\* magic, version and device id are read; a mismatch returns -1 before any
\* write.  main() calls virtio_net_init first and fs_init, which reaches
\* virtio_blk_init, after it.
virtio_init_probe(d, magic, version, device_id) ==
    /\ pc = "idle"
    /\ scenario = "boot"
    /\ d \notin hs.called
    /\ hs.main = (IF d = "net" THEN "virtio_net_init" ELSE "fs_init")
    /\ mmio_w' = NoWrite
    /\ LET reads == ProbeReads(magic, version, device_id)
       IN IF ProbeOk(d, reads)
          THEN /\ hs' = [hs EXCEPT !.dev = d, !.pos = 1, !.called = @ \cup {d},
                                   !.reads = reads]
               /\ pc' = "init"
               /\ UNCHANGED <<loc, ret>>
          ELSE /\ hs' = [hs EXCEPT !.called = @ \cup {d}, !.reads = reads]
               /\ Return(-1)
    /\ call' = BlkCallOf("init", 0, 0, 0)
    /\ UNCHANGED <<blkvars, netvars, fenced, notified, nsub, lastw, scenario,
                   trap>>

\* one register write of the program; the device may answer the write of
\* FEATURES_OK by clearing the bit
virtio_init_write ==
    /\ pc = "init"
    /\ LET st == InitProgram(hs.dev)[hs.pos]
       IN /\ st.k = "write"
          /\ mmio_w' = [dev |-> hs.dev, reg |-> st.reg, val |-> st.val]
          /\ \E rejects \in BOOLEAN :
               /\ rejects => /\ st.reg = "Status"
                             /\ st.val = VIRTIO_STATUS_ACK + VIRTIO_STATUS_DRIVER
                                            + VIRTIO_STATUS_FEATURES_OK
               /\ hs' = [RegWrite(hs, hs.dev, st.reg, st.val) EXCEPT
                           !.pos = @ + 1,
                           !.rej[hs.dev] = @ \/ rejects]
    /\ UNCHANGED <<blkvars, netvars, pc, loc, ret, fenced, notified, nsub, call,
                   lastw, scenario, trap>>

\* the steps between the writes: the configuration read of virtio_blk_init
\* (capacity, and the block size when the device reports one),
\* init_queue(&q), setup_rx_buffers() with its queue-notify, and the
\* successful return (virtio_blk_init sets blk_initialized first)
virtio_init_mem ==
    /\ pc = "init"
    /\ LET st == InitProgram(hs.dev)[hs.pos]
       IN /\ st.k # "write"
          /\ req_queue' = IF st.k = "init_queue" /\ st.reg = "blk"
                          THEN init_queue ELSE req_queue
          /\ tx_queue' = IF st.k = "init_queue" /\ st.reg = "tx"
                         THEN init_queue ELSE tx_queue
          /\ rx_queue' = CASE st.k = "init_queue" /\ st.reg = "rx" -> init_queue
                           [] st.k = "setup_rx_buffers" ->
                                setup_rx_buffers(rx_queue)
                           [] OTHER -> rx_queue
          /\ IF st.k = "read_config"
             THEN /\ blk_capacity' = BlkCapacity
                  /\ \E bsize \in ReportedBlockSizes :
                       blk_sector_size' = SectorSizeOf(blk_sector_size, bsize)
             ELSE UNCHANGED <<blk_capacity, blk_sector_size>>
          /\ IF st.k = "setup_rx_buffers"
             THEN /\ fenced' = [fenced EXCEPT !["rx"] = QUEUE_SIZE \div 2]
                  /\ notified' = [notified EXCEPT !["rx"] = QUEUE_SIZE \div 2]
                  /\ mmio_w' = Notify("net", QUEUE_RX)
             ELSE /\ mmio_w' = NoWrite
                  /\ UNCHANGED <<fenced, notified>>
          /\ IF st.k = "return"
             THEN /\ blk_initialized' =
                       IF hs.dev = "blk" THEN 1 ELSE blk_initialized
                  /\ hs' = [hs EXCEPT !.dev = "none", !.pos = 0]
                  /\ Return(0)
             ELSE /\ hs' = [hs EXCEPT !.pos = @ + 1]
                  /\ UNCHANGED <<blk_initialized, pc, loc, ret>>
    /\ UNCHANGED <<req_header, req_status, data_buffer, disk, blk_int, rbuf,
                   reqlog>>
    /\ UNCHANGED <<tx_buffers, rx_buffers, net_int, input_log, nsub, call,
                   lastw, scenario, trap>>

\* zero-initialized queue memory
ZeroQueue ==
    [descs |-> [i \in DescIdx |-> [addr |-> 0, len |-> 0, flags |-> 0,
                                   next |-> 0]],
     avail_idx |-> 0,
     avail_ring |-> [i \in DescIdx |-> 0],
     used_idx |-> 0,
     used_ring |-> [i \in DescIdx |-> [id |-> 0, len |-> 0]],
     last_used_idx |-> 0,
     num_free |-> 0,
     free_head |-> 0]

\* the state main() starts from
InitBoot ==
    /\ scenario = "boot"
    /\ req_queue = ZeroQueue
    /\ tx_queue = ZeroQueue
    /\ rx_queue = ZeroQueue
    /\ req_header = [type |-> 0, reserved |-> 0, sector |-> 0]
    /\ req_status = 0
    /\ data_buffer = [i \in 0 .. (MAX_SECTORS_PER_REQ - 1) |-> 0]
    /\ blk_initialized = 0
    /\ blk_capacity = 0
    /\ blk_sector_size = VIRTIO_BLK_SECTOR_SIZE
    /\ tx_buffers = [i \in DescIdx |-> EmptySlot]
    /\ rx_buffers = [i \in DescIdx |-> EmptySlot]
    /\ disk = [s \in 0 .. (BlkCapacity - 1) |-> 0]
    /\ blk_int = 0
    /\ net_int = 0
    /\ pc = "idle"
    /\ loc = NoLoc
    /\ ret = 0
    /\ rbuf = [k \in {} |-> -1]
    /\ mmio_w = NoWrite
    /\ fenced = [q \in Queues |-> 0]
    /\ notified = [q \in Queues |-> 0]
    /\ reqlog = << >>
    /\ input_log = << >>
    /\ nsub = [q \in Queues |-> 0]
    /\ call = NoCall
    /\ lastw = NoCall
    /\ trap = NoTrap
    /\ \E nummax \in [Queues -> {QUEUE_SIZE \div 2, QUEUE_SIZE}] :
         hs = [dev |-> "none", pos |-> 0, called |-> {},
               status |-> [d \in {"blk", "net"} |-> 0],
               nfeat |-> [d \in {"blk", "net"} |-> 0],
               sel |-> [d \in {"blk", "net"} |-> 0],
               regs |-> [q \in Queues |-> NoQueueRegs],
               rej |-> [d \in {"blk", "net"} |-> FALSE],
               nummax |-> nummax,
               reads |-> << >>,
               main |-> "virtio_net_init",
               owed |-> FALSE]

\* main(): netif = virtio_net_init(); if (netif == NULL) htif_exit(1);
\* netif_add is taken to succeed
main_virtio_net_init_ret ==
    /\ pc = "idle"
    /\ hs.main = "virtio_net_init"
    /\ "net" \in hs.called
    /\ hs' = [hs EXCEPT !.main = IF ret # 0 THEN "halted" ELSE "fs_init"]
    /\ mmio_w' = NoWrite
    /\ UNCHANGED <<blkvars, netvars, pc, loc, ret, fenced, notified, nsub, call,
                   lastw, scenario, trap>>

\* main(): whatever fs_init() returns, http_server_init() and the main loop
\* follow
main_fs_init_ret ==
    /\ pc = "idle"
    /\ hs.main = "fs_init"
    /\ "blk" \in hs.called
    /\ hs' = [hs EXCEPT !.main = "loop"]
    /\ mmio_w' = NoWrite
    /\ UNCHANGED <<blkvars, netvars, pc, loc, ret, fenced, notified, nsub, call,
                   lastw, scenario, trap>>

NextInit ==
    \/ \E d \in {"blk", "net"}, magic \in {VIRTIO_MAGIC, 0},
          version \in {VIRTIO_VERSION, 1},
          device_id \in {VIRTIO_ID_BLOCK, VIRTIO_ID_FIFO} :
          virtio_init_probe(d, magic, version, device_id)
    \/ virtio_init_write
    \/ virtio_init_mem
    \/ main_virtio_net_init_ret
    \/ main_fs_init_ret

SpecInit == InitBoot /\ [][NextInit]_vars

\* C20: in the initialization of each device the status register is written
\* with Reset (0) first, then Acknowledge, then Acknowledge|Driver; the
\* driver feature words are written next, and only at that status; then
\* FeaturesOk is added; queue registers are written only at that status, and
\* DriverOk is added only when every queue of the device has been selected,
\* sized 16, given its descriptor, available and used addresses and made
\* ready.  Every non-zero status written keeps all bits of the one before,
\* and no queue register is written once DriverOk is set.
C20_HandshakeOrder ==
    /\ [][(pc = "init" /\ hs'.pos = hs.pos + 1 /\ mmio_w'.reg = "Status") =>
            LET d == hs.dev
                old == hs.status[d]
                v == mmio_w'.val
            IN /\ mmio_w'.dev = d
               /\ v \in {0, 1, 3, 11, 15}
               /\ (v = 0) = (hs.pos = 1)
               /\ v # 0 => /\ v > old
                           /\ \A b \in {1, 2, 4, 8} :
                                (old \div b) % 2 = 1 => (v \div b) % 2 = 1
               /\ v = 1 => old = 0
               /\ v = 3 => old = 1 /\ hs.nfeat[d] = 0
               /\ v = 11 => old = 3 /\ hs.nfeat[d] = 2
               /\ v = 15 => /\ old = 11
                            /\ \A q \in QueuesOf(d) :
                                 hs.regs[q] = QueueRegsDone(q)]_vars
    /\ [][(pc = "init" /\ hs'.pos = hs.pos + 1
            /\ mmio_w'.reg \in {"DriverFeaturesSel", "DriverFeatures"}) =>
            hs.status[hs.dev] = 3]_vars
    /\ [][(pc = "init" /\ hs'.pos = hs.pos + 1
            /\ mmio_w'.reg \in {"QueueSel", "QueueNum", "QueueDescLow",
                                "QueueDescHigh", "QueueAvailLow",
                                "QueueAvailHigh", "QueueUsedLow",
                                "QueueUsedHigh", "QueueReady"}) =>
            /\ hs.status[hs.dev] = 11
            /\ \A q \in QueuesOf(hs.dev) :
                 hs'.regs[q].ready = 1 => hs'.regs[q] = QueueRegsDone(q)]_vars
    /\ [][\A d \in {"blk", "net"} : hs.status[d] = 15 =>
            /\ hs'.status[d] = 15
            /\ \A q \in QueuesOf(d) : hs'.regs[q] = hs.regs[q]]_vars
    /\ [](\A d \in {"blk", "net"} : (pc = "idle" /\ d \in hs.called) =>
            hs.status[d] \in {0, 15})

\* both initializations have returned 0 and left the drivers' starting state
C20_Witness ==
    /\ pc = "idle"
    /\ ret = 0
    /\ hs = AfterInit
    /\ blk_initialized = 1
    /\ blk_capacity = BlkCapacity
    /\ req_queue = init_queue
    /\ tx_queue = init_queue
    /\ rx_queue = setup_rx_buffers(init_queue)
    /\ notified["rx"] = QUEUE_SIZE \div 2

(***************************************************************************)
(* The FIFO device.  It takes chains of each available ring in order.  A   *)
(* TX chain is sent and marked used with written length 0; an RX buffer is *)
(* filled with a slot image and marked used with the written length wlen.  *)
(***************************************************************************)
DevTx ==
    /\ tx_queue.used_idx # tx_queue.avail_idx
    /\ tx_queue' = PushUsed(tx_queue,
                            tx_queue.avail_ring[tx_queue.used_idx % QUEUE_SIZE], 0)
    /\ net_int' = 1
    /\ UNCHANGED <<rx_queue, tx_buffers, rx_buffers, input_log, pc, loc, ret,
                   mmio_w, fenced, notified, nsub>>
    /\ UNCHANGED <<blkvars, scenario, trap, hs, call, lastw>>

RxCompleted == rx_queue.used_idx

\* A device that loops frames back: it takes the next TX chain and the next
\* posted RX buffer, copies the bytes of the TX slot into the RX slot, and
\* marks the RX buffer used with the length of the TX descriptor.
DevEcho ==
    /\ tx_queue.used_idx # tx_queue.avail_idx
    /\ rx_queue.used_idx # rx_queue.avail_idx
    /\ LET thead == tx_queue.avail_ring[tx_queue.used_idx % QUEUE_SIZE]
           rhead == rx_queue.avail_ring[rx_queue.used_idx % QUEUE_SIZE]
       IN /\ rx_buffers' =
               [rx_buffers EXCEPT ![rx_queue.descs[rhead].addr - RX_BUF_BASE] =
                   tx_buffers[tx_queue.descs[thead].addr - TX_BUF_BASE]]
          /\ rx_queue' = PushUsed(rx_queue, rhead, tx_queue.descs[thead].len)
          /\ tx_queue' = PushUsed(tx_queue, thead, 0)
    /\ net_int' = 1
    /\ UNCHANGED <<tx_buffers, input_log, pc, loc, ret, mmio_w, fenced,
                   notified, nsub>>
    /\ UNCHANGED <<blkvars, scenario, trap, hs, call, lastw>>

DevRx(slot, wlen) ==
    /\ rx_queue.used_idx # rx_queue.avail_idx
    /\ LET head == rx_queue.avail_ring[rx_queue.used_idx % QUEUE_SIZE]
       IN /\ rx_buffers' =
               [rx_buffers EXCEPT ![rx_queue.descs[head].addr - RX_BUF_BASE] = slot]
          /\ rx_queue' = PushUsed(rx_queue, head, wlen)
    /\ net_int' = 1
    /\ UNCHANGED <<tx_queue, tx_buffers, input_log, pc, loc, ret, mmio_w,
                   fenced, notified, nsub>>
    /\ UNCHANGED <<blkvars, scenario, trap, hs, call, lastw>>

(***************************************************************************)
(* The whole driver stack: the three queues, small transfers.              *)
(***************************************************************************)
NetStep ==
    \/ virtio_net_output_ring
    \/ virtio_net_output_fence
    \/ virtio_net_output_idx
    \/ virtio_net_output_notify
    \/ virtio_net_tx_complete
    \/ \E pbuf_ok \in BOOLEAN : virtio_net_input(pbuf_ok)
    \/ virtio_net_input_ring
    \/ virtio_net_input_fence
    \/ virtio_net_input_idx
    \/ virtio_net_input_adv

TxFrames == {[len |-> 60, id |-> 1], [len |-> BUF_SIZE - 1, id |-> 2]}

\* the frames of an "echo" behaviour: the shortest, the longest that fits a
\* slot, and one between
EchoFrames == {[len |-> 1, id |-> 3], [len |-> 60, id |-> 1],
               [len |-> BUF_SIZE - 2, id |-> 4]}
RxImages == {[slot |-> FrameSlot([len |-> 510, id |-> 7]), wlen |-> 512]}

\* what the device may leave in an RX slot in a "rxmix" behaviour: a frame
\* that fills the written length, a frame shorter than it, a prefix of 0, a
\* prefix one above written length - 2, and a written length below 2
RxMixImages ==
    RxImages \cup
    {[slot |-> FrameSlot([len |-> 60, id |-> 8]), wlen |-> 512],
     [slot |-> FrameSlot([len |-> 0, id |-> 9]), wlen |-> 512],
     [slot |-> FrameSlot([len |-> 511, id |-> 10]), wlen |-> 512],
     [slot |-> FrameSlot([len |-> 510, id |-> 11]), wlen |-> 1]}

\* what is left of MaxAll in an "all" behaviour
AllBudget == MaxAll - (nsub["blk"] + nsub["tx"] + RxCompleted)

TxCap == CASE scenario = "tx" -> MaxTx
          [] scenario = "txfull" -> MaxTxFull
          [] scenario = "txwrap" -> MaxTxWrap
          [] scenario = "echo" -> MaxEcho
          [] scenario = "violnet" -> MaxViolReq
          [] scenario = "violid" -> MaxViolReq
          [] scenario = "irq" -> MaxIrqTx
          [] scenario = "all" -> nsub["tx"] + AllBudget
          [] OTHER -> 0

RxCap == CASE scenario = "rx" -> MaxRx
          [] scenario = "rxmix" -> MaxRxMix
          [] scenario = "violnet" -> MaxViolReq
          [] scenario = "violid" -> MaxViolReq
          [] scenario = "irq" -> MaxIrqRx
          [] scenario = "all" -> RxCompleted + AllBudget
          [] OTHER -> 0

NetCall ==
    /\ scenario \in {"tx", "txfull", "txwrap", "rx", "rxmix", "violnet",
                    "violid", "echo", "all", "irq"}
    /\ \/ \E f \in TxFrames \cup EchoFrames :
            /\ IF scenario = "echo" THEN f \in EchoFrames ELSE f \in TxFrames
            /\ scenario \in {"all", "txfull", "rxmix", "violnet", "violid", "irq"}
                  => ~FrameTooLarge(f)
            /\ \/ nsub["tx"] < TxCap
               \/ FrameTooLarge(f)
               \/ TxQueueFull(tx_queue)
            /\ virtio_net_output(f)
       \/ virtio_net_poll

NetDev ==
    \/ scenario # "echo" /\ DevTx
    \/ \E im \in RxMixImages :
         /\ scenario \notin {"rxmix", "violnet"} => im \in RxImages
         /\ RxCompleted < RxCap
         /\ DevRx(im.slot, im.wlen)

EchoDev == scenario = "echo" /\ DevEcho

AllBlkCall ==
    /\ scenario = "all"
    /\ AllBudget > 0
    /\ \/ virtio_blk_read(1, 2)
       \/ virtio_blk_write(1, 2, 1)
       \/ virtio_blk_flush

SeqBlkCall ==
    \/ /\ scenario = "blkseq"
       /\ nsub["blk"] < MaxBlkSeq
       /\ IF nsub["blk"] % 2 = 0
          THEN virtio_blk_write(1, 2, 1 + ((nsub["blk"] \div 2) % 2))
          ELSE virtio_blk_read(1, 2)
    \/ /\ scenario = "blkwrap"
       /\ nsub["blk"] < MaxTxWrap
       /\ \/ virtio_blk_read(1, 2)
          \/ \E tag \in Tags : virtio_blk_write(1, 2, tag)

SmallBlkCall ==
    \/ AllBlkCall
    \/ SeqBlkCall

BlkDev ==
    \E st \in DeviceStatuses :
       /\ scenario \in {"blkseq", "blkwrap"} => st = VIRTIO_BLK_S_OK
       /\ scenario = "all" => st \in {VIRTIO_BLK_S_OK, VIRTIO_BLK_S_IOERR}
       /\ DevBlk(st)

Next ==
    \/ SmallBlkCall
    \/ BlkStep
    \/ BlkDev
    \/ NetCall
    \/ NetStep
    \/ NetDev
    \/ EchoDev

InitSpec ==
    Init /\ scenario \notin {"blk", "bsize", "range", "violblk", "violnet",
                           "violid", "irq"}

Spec == InitSpec /\ [][Next]_vars

InitNet == Init /\ scenario \in {"tx", "txfull", "txwrap", "rx"}

NextNet ==
    \/ NetCall
    \/ NetStep
    \/ NetDev

SpecNet == InitNet /\ [][NextNet]_vars

(***************************************************************************)
(* The same driver and devices with scheduling assumptions: a driver call  *)
(* that has started keeps executing, and the block device eventually       *)
(* completes a chain it has been handed.  Nothing is assumed of the        *)
(* network device, which may stay silent for ever.                         *)
(***************************************************************************)
InitLive == Init /\ scenario = "all"

NextLive ==
    \/ AllBlkCall
    \/ BlkStep
    \/ BlkDev
    \/ NetCall
    \/ NetStep
    \/ NetDev

SpecLive ==
    /\ InitLive
    /\ [][NextLive]_vars
    /\ WF_vars(BlkStep)
    /\ WF_vars(NetStep)
    /\ WF_vars(BlkDev)

(***************************************************************************)
(* The network driver with the trap handler: a machine external interrupt  *)
(* may be taken before any step of the driver context once a source is     *)
(* pending.                                                                *)
(***************************************************************************)
InitIrq == Init /\ scenario = "irq"

NextIrq ==
    \/ NetCall
    \/ rx_queue.last_used_idx < MaxIrqDrain /\ NetStep
    \/ NetDev
    \/ TrapStep
    \/ PlicGateway
    \/ PlicOther

SpecIrq == InitIrq /\ [][NextIrq]_vars


(***************************************************************************)
(* Descriptor accounting.  A chain is in flight from the increment of      *)
(* avail.idx that publishes it until the driver advances last_used_idx     *)
(* past its used entry; its descriptors are those reached from the head    *)
(* through next while VRING_DESC_F_NEXT is set.                            *)
(***************************************************************************)
HasNext(d) == d.flags % 2 = VRING_DESC_F_NEXT

RECURSIVE ChainFrom(_, _, _)
ChainFrom(q, d, fuel) ==
    IF fuel = 0 \/ d \notin DescIdx THEN << >>
    ELSE IF HasNext(q.descs[d])
         THEN <<d>> \o ChainFrom(q, q.descs[d].next, fuel - 1)
         ELSE <<d>>

Chain(q, head) == ChainFrom(q, head, QUEUE_SIZE)

\* the free list: num_free descriptors, walked from free_head through next
RECURSIVE FreeFrom(_, _, _)
FreeFrom(q, d, n) ==
    IF n = 0 \/ d \notin DescIdx THEN << >>
    ELSE <<d>> \o FreeFrom(q, q.descs[d].next, n - 1)

FreeList(q) == FreeFrom(q, q.free_head, q.num_free)

\* number of chains between index from and avail.idx
Pending(q, from) == U16(q.avail_idx - from)

\* descriptors of the chains published at indices from .. avail.idx - 1
RECURSIVE InFlightFrom(_, _, _)
InFlightFrom(q, from, n) ==
    IF n = 0 THEN << >>
    ELSE Chain(q, q.avail_ring[from % QUEUE_SIZE])
         \o InFlightFrom(q, U16(from + 1), n - 1)

InFlight(q) == InFlightFrom(q, q.last_used_idx, Pending(q, q.last_used_idx))

SeqSet(sq) == {sq[i] : i \in DOMAIN sq}
NoDup(sq) == Cardinality(SeqSet(sq)) = Len(sq)

(***************************************************************************)
(* C1 -- free-list conservation.  Whenever no driver operation is          *)
(* mid-execution, each of the three queues has num_free plus the number of *)
(* descriptors of its chains that are submitted and not yet freed equal to *)
(* QUEUE_SIZE, and the free list really holds num_free descriptors.        *)
(***************************************************************************)
C1_FreeListConservation ==
    pc = "idle" =>
       \A q \in Queues :
          /\ Q(q).num_free + Len(InFlight(Q(q))) = QUEUE_SIZE
          /\ Len(FreeList(Q(q))) = Q(q).num_free

\* all three queues have been through submission, completion and reclaim
\* or re-post, and frames are still pending on TX and RX
C1_Witness ==
    /\ pc = "idle"
    /\ scenario = "all"
    /\ req_queue.last_used_idx = 1
    /\ req_queue.num_free = QUEUE_SIZE
    /\ tx_queue.avail_idx = 1
    /\ tx_queue.num_free = QUEUE_SIZE - 1
    /\ rx_queue.last_used_idx = 1
    /\ rx_queue.num_free = QUEUE_SIZE \div 2

(***************************************************************************)
(* Ownership of descriptors while an operation runs.  Between the pop and  *)
(* the increment of avail.idx, and between the advance of last_used_idx    *)
(* and the push back, the chain belongs to the running call.  The RX loop  *)
(* has taken a used entry from the moment it has read it, one step before  *)
(* it advances last_used_idx.                                              *)
(***************************************************************************)
BlkHoldsChain == pc \in {"sr_ring", "sr_fence", "sr_idx", "sr_free",
                         "fl_ring", "fl_fence", "fl_idx", "fl_free"}
TxHoldsDesc == pc \in {"tx_ring", "tx_fence", "tx_idx"}
RxHoldsDesc == pc \in {"rx_ring", "rx_fence", "rx_idx"}
RxEntryTaken == pc \in {"rx_ring", "rx_fence", "rx_idx", "rx_adv"}

Held(q) ==
    CASE q = "blk" -> IF BlkHoldsChain THEN Chain(req_queue, loc.desc0) ELSE << >>
      [] q = "tx"  -> IF TxHoldsDesc THEN <<loc.desc0>> ELSE << >>
      [] q = "rx"  -> IF RxHoldsDesc THEN <<loc.desc0>> ELSE << >>

\* first index whose chain the driver has not yet taken back
Taken(q) ==
    IF q = "rx" /\ RxEntryTaken THEN U16(rx_queue.last_used_idx + 1)
    ELSE Q(q).last_used_idx

InFlightNow(q) == InFlightFrom(Q(q), Taken(q), Pending(Q(q), Taken(q)))

Owned(q) == FreeList(Q(q)) \o InFlightNow(q) \o Held(q)

(***************************************************************************)
(* C2 -- no double allocation.  At every moment, also in the middle of an  *)
(* operation, each of the 16 descriptors of a queue is in exactly one      *)
(* place: on the free list, in one chain that is in flight, or in the      *)
(* chain the running call has popped and not yet published or pushed back. *)
(***************************************************************************)
C2_NoDoubleAllocation ==
    \A q \in Queues :
       LET owned == Owned(q)
       IN /\ Len(owned) = QUEUE_SIZE
          /\ SeqSet(owned) = DescIdx

\* a transmit has popped the descriptor that an earlier frame used and the
\* reclaim returned, while another frame is still in flight
C2_Witness ==
    /\ pc = "tx_ring"
    /\ tx_queue.last_used_idx >= 1
    /\ loc.desc0 = tx_queue.used_ring[0].id
    /\ Pending(tx_queue, tx_queue.last_used_idx) >= 1

(***************************************************************************)
(* Positions of the publish sequence on each queue: the ring slot is       *)
(* written, not yet fenced (Fence); fenced, index not yet incremented      *)
(* (Idx); index incremented by the running call (Published).               *)
(***************************************************************************)
AtFence(q) ==
    CASE q = "blk" -> pc \in {"sr_fence", "fl_fence"}
      [] q = "tx"  -> pc = "tx_fence"
      [] q = "rx"  -> pc = "rx_fence"

AtIdx(q) ==
    CASE q = "blk" -> pc \in {"sr_idx", "fl_idx"}
      [] q = "tx"  -> pc = "tx_idx"
      [] q = "rx"  -> pc = "rx_idx"

JustPublished(q) ==
    CASE q = "blk" -> pc \in {"sr_notify", "fl_notify"}
      [] q = "tx"  -> pc = "tx_notify"
      [] q = "rx"  -> pc = "rx_adv"

NotifyOf(q) ==
    CASE q = "blk" -> Notify("blk", QUEUE_REQUEST)
      [] q = "tx"  -> Notify("net", QUEUE_TX)
      [] q = "rx"  -> Notify("net", QUEUE_RX)

SlotBefore(q, idx) == q.avail_ring[U16(idx - 1) % QUEUE_SIZE]

UsedEntry(q) == q.used_ring[q.last_used_idx % QUEUE_SIZE]

\* a step of wait_for_completion, virtio_net_tx_complete or virtio_net_input
\* that advances last_used_idx takes exactly the next published entry
TakesNext(q, qn) ==
    /\ q.last_used_idx # q.used_idx
    /\ qn.last_used_idx = U16(q.last_used_idx + 1)

BlkDrainInOrder ==
    req_queue'.last_used_idx # req_queue.last_used_idx =>
       /\ TakesNext(req_queue, req_queue')
       /\ pc' \in {"sr_free", "fl_free"}
       /\ loc'.desc0 = UsedEntry(req_queue).id

TxDrainInOrder ==
    tx_queue'.last_used_idx # tx_queue.last_used_idx =>
       /\ TakesNext(tx_queue, tx_queue')
       /\ tx_queue'.free_head = UsedEntry(tx_queue).id
       /\ tx_queue'.num_free = tx_queue.num_free + 1

RxDrainInOrder ==
    rx_queue'.last_used_idx # rx_queue.last_used_idx =>
       /\ TakesNext(rx_queue, rx_queue')
       /\ loc.desc0 = UsedEntry(rx_queue).id
       /\ loc.len = UsedEntry(rx_queue).len
       /\ SlotBefore(rx_queue, rx_queue.avail_idx) = UsedEntry(rx_queue).id
       /\ nsub["rx"] = rx_queue'.last_used_idx

(***************************************************************************)
(* C4 -- in-order, exactly-once completion.  Every advance of              *)
(* last_used_idx on a queue is by one, happens only when an entry is       *)
(* published at that index, and goes with one processing of that entry:    *)
(* the block chain whose head the entry names is the one freed, the TX     *)
(* descriptor the entry names is the one pushed back, the RX descriptor    *)
(* the entry names is re-posted once and its frame is validated with the   *)
(* written length of the entry.                                            *)
(***************************************************************************)
C4_InOrderExactlyOnce ==
    [][BlkDrainInOrder /\ TxDrainInOrder /\ RxDrainInOrder]_vars

\* two RX buffers were marked used with written length 512 before the pass
\* began; the pass has taken both, in order, once each
C4_Witness ==
    /\ pc = "rx_loop"
    /\ rx_queue.last_used_idx = 2
    /\ rx_queue.used_idx = 2
    /\ rx_queue.used_ring[0] = [id |-> 0, len |-> 512]
    /\ rx_queue.used_ring[1] = [id |-> 1, len |-> 512]
    /\ Len(input_log) = 2
    /\ input_log[1].len = 510
    /\ nsub["rx"] = 2

(***************************************************************************)
(* 16-bit distances between the three indices of a queue.                  *)
(***************************************************************************)
Submitted(q) == U16(q.avail_idx - q.last_used_idx)
Completed(q) == U16(q.used_idx - q.last_used_idx)
Unconsumed(q) == U16(q.avail_idx - q.used_idx)

(***************************************************************************)
(* C5 -- index ordering.  In every state of every queue, as 16-bit         *)
(* distances from last_used_idx: used.idx lies between last_used_idx and   *)
(* avail.idx, and avail.idx is at most QUEUE_SIZE ahead; and a ring slot   *)
(* is written only while fewer than QUEUE_SIZE chains are pending, so no   *)
(* slot the device has still to read is overwritten.                       *)
(***************************************************************************)
C5_IndexOrdering ==
    \A q \in Queues :
       /\ Completed(Q(q)) <= Submitted(Q(q))
       /\ Submitted(Q(q)) <= QUEUE_SIZE
       /\ Completed(Q(q)) + Unconsumed(Q(q)) = Submitted(Q(q))
       /\ (AtFence(q) \/ AtIdx(q)) => Submitted(Q(q)) < QUEUE_SIZE

\* the TX indices have wrapped past 65535 with frames pending on both
\* sides of the wrap
C5_Witness ==
    /\ scenario = "txwrap"
    /\ tx_queue.avail_idx = 2
    /\ tx_queue.used_idx = 0
    /\ tx_queue.last_used_idx = TWO16 - 1
    /\ Submitted(tx_queue) = 3

(***************************************************************************)
(* C6 -- single request in flight.  At every moment of any sequence of     *)
(* read, write and flush calls, chunked ones included, the block request   *)
(* queue has at most one chain submitted and not yet drained: avail.idx    *)
(* minus last_used_idx is 0 or 1.                                          *)
(***************************************************************************)
C6_SingleRequestInFlight ==
    /\ Submitted(req_queue) \in {0, 1}
    /\ Len(InFlight(req_queue)) <= 3

\* the second chunk of a chunked call is in flight, alone
C6_Witness ==
    /\ scenario = "blk"
    /\ pc = "sr_wait"
    /\ call.count > MAX_SECTORS_PER_REQ
    /\ Len(reqlog) = 2
    /\ Submitted(req_queue) = 1
    /\ req_queue.last_used_idx >= 1

(***************************************************************************)
(* A step that begins a read or write whose range ends past the capacity.  *)
(* The driver is idle only between calls, and call' names the call a step  *)
(* from idle begins.                                                       *)
(***************************************************************************)
OutOfRangeCall ==
    /\ pc = "idle"
    /\ call'.op \in {"read", "write"}
    /\ call'.sector + call'.count > blk_capacity

\* the call is over in that step, failed, with the queue, the request
\* memory, the medium and the device registers as they were
RejectedUntouched ==
    /\ pc' = "idle"
    /\ ret' = -1
    /\ mmio_w' = NoWrite
    /\ UNCHANGED <<req_queue, req_header, req_status, data_buffer, disk,
                   blk_int, fenced, notified, nsub>>

(***************************************************************************)
(* C7 -- bounds rejection.  A read or write with sector + count above the  *)
(* capacity returns -1 at once and touches nothing: num_free, free_head,   *)
(* avail.idx, last_used_idx and the rest of the queue are unchanged, no    *)
(* register is written, no request is counted as submitted.                *)
(***************************************************************************)
C7_BoundsRejection == [][OutOfRangeCall => RejectedUntouched]_vars

\* read(capacity - 1, buf, 2) was made after earlier transfers and failed
C7_Witness ==
    /\ pc = "idle"
    /\ call = BlkCallOf("read", blk_capacity - 1, 2, 0)
    /\ ret = -1
    /\ nsub["blk"] > 0
    /\ req_queue.num_free = QUEUE_SIZE
    /\ req_queue.avail_idx = nsub["blk"]
    /\ notified["blk"] = req_queue.avail_idx
    /\ reqlog = << >>

(***************************************************************************)
(* C8 -- chunked I/O round-trip.  With a device that stores what is        *)
(* written (every sub-request of both calls completed with status OK, so   *)
(* both calls returned 0), a read of N sectors at sector s that follows a  *)
(* write of N sectors of distinct data at s returns the data written,      *)
(* sector for sector; N may exceed one chunk of MAX_SECTORS_PER_REQ.       *)
(***************************************************************************)
C8_ChunkedRoundTrip ==
    ( /\ pc = "idle"
      /\ call.op = "read"
      /\ ret = 0
      /\ lastw.op = "write"
      /\ lastw.sector = call.sector
      /\ lastw.count = call.count )
    => /\ DOMAIN rbuf = 0 .. (call.count - 1)
       /\ \A k \in 0 .. (call.count - 1) : rbuf[k] = Pat(lastw.tag, k)

\* 129 sectors written in two chunks and read back in two chunks
C8_Witness ==
    /\ pc = "idle"
    /\ call = BlkCallOf("read", 1, MAX_SECTORS_PER_REQ + 1, 0)
    /\ ret = 0
    /\ lastw = BlkCallOf("write", 1, MAX_SECTORS_PER_REQ + 1, 2)
    /\ Len(reqlog) = 2
    /\ rbuf[0] = Pat(2, 0)
    /\ rbuf[MAX_SECTORS_PER_REQ] = Pat(2, MAX_SECTORS_PER_REQ)

(***************************************************************************)
(* The sub-requests of the running or last read/write call, as logged at   *)
(* the increment of avail.idx: type, first sector, byte length, offset in  *)
(* the caller's buffer.                                                    *)
(***************************************************************************)
MaxChunkBytes == MAX_SECTORS_PER_REQ * VIRTIO_BLK_SECTOR_SIZE

CallType == IF call.op = "read" THEN VIRTIO_BLK_T_IN ELSE VIRTIO_BLK_T_OUT

\* each sub-request is 1 .. 128 sectors; the first starts at the call's
\* sector and offset 0; each next one starts where the previous ended
Consecutive(log) ==
    /\ \A i \in DOMAIN log :
          /\ log[i].type = CallType
          /\ log[i].len > 0
          /\ log[i].len <= MaxChunkBytes
          /\ log[i].len % VIRTIO_BLK_SECTOR_SIZE = 0
    /\ log # << >> => log[1].sector = call.sector /\ log[1].off = 0
    /\ \A i \in 1 .. (Len(log) - 1) :
          /\ log[i + 1].sector = log[i].sector + SectorsOf(log[i].len)
          /\ log[i + 1].off = log[i].off + log[i].len

\* together the sub-requests cover [sector, sector + count)
CoversCall(log) ==
    /\ Len(log) = ChunksOf(call.count)
    /\ log[Len(log)].sector + SectorsOf(log[Len(log)].len)
          = call.sector + call.count

(***************************************************************************)
(* C9 -- chunk decomposition.  During a read or write the sub-requests     *)
(* submitted so far are consecutive, ascending, each of at most 128        *)
(* sectors, with the buffer offset advancing by the bytes of each; a       *)
(* sub-request is built only when the previous one has completed and its   *)
(* descriptors are back on the free list; and when the call returns 0 the  *)
(* ceil(count / 128) sub-requests cover exactly [s, s + count).            *)
(***************************************************************************)
C9_ChunkDecomposition ==
    call.op \in {"read", "write"} =>
       /\ Consecutive(reqlog)
       /\ pc = "sr_entry" =>
             /\ req_queue.num_free = QUEUE_SIZE
             /\ Submitted(req_queue) = 0
             /\ Unconsumed(req_queue) = 0
       /\ (pc = "idle" /\ ret = 0) => CoversCall(reqlog)

\* a write of 129 sectors has returned 0 after two sub-requests, the second
\* of one sector at sector s + 128 and buffer offset 128 * 512
C9_Witness ==
    /\ pc = "idle"
    /\ call = BlkCallOf("write", 1, MAX_SECTORS_PER_REQ + 1, 1)
    /\ ret = 0
    /\ Len(reqlog) = 2
    /\ reqlog[1] = [type |-> VIRTIO_BLK_T_OUT, sector |-> 1,
                    len |-> MaxChunkBytes, off |-> 0]
    /\ reqlog[2] = [type |-> VIRTIO_BLK_T_OUT, sector |-> 1 + MAX_SECTORS_PER_REQ,
                    len |-> VIRTIO_BLK_SECTOR_SIZE, off |-> MaxChunkBytes]

(***************************************************************************)
(* C10 -- device I/O errors are surfaced and not retried.  A sub-request   *)
(* or flush reports success exactly when the status byte holds             *)
(* VIRTIO_BLK_S_OK after the completion (the byte is preset to 0xFF, so    *)
(* exactly when the device wrote 0); its descriptors are back on the free  *)
(* list whatever the status; the chunk loop goes on to a further           *)
(* sub-request only after a success, never submits a range twice, and a    *)
(* read or write that submitted anything returns 0 exactly when its last   *)
(* sub-request succeeded.                                                  *)
(***************************************************************************)
C10_ErrorsSurfacedNotRetried ==
    /\ pc \in {"rd_ret", "wr_ret"} =>
          /\ loc.rc = 0 <=> req_status = VIRTIO_BLK_S_OK
          /\ loc.rc \in {0, -1}
          /\ req_queue.num_free = QUEUE_SIZE
          /\ Len(FreeList(req_queue)) = QUEUE_SIZE
    /\ (pc \in {"rd_loop", "wr_loop", "sr_entry"} /\ reqlog # << >>) =>
          req_status = VIRTIO_BLK_S_OK
    /\ (call.op \in {"read", "write"}) => Consecutive(reqlog)
    /\ (pc = "idle" /\ reqlog # << >>) =>
          /\ ret = 0 <=> req_status = VIRTIO_BLK_S_OK
          /\ ret \in {0, -1}
          /\ req_queue.num_free = QUEUE_SIZE
          /\ Len(FreeList(req_queue)) = QUEUE_SIZE
          /\ Len(reqlog) <= ChunksOf(call.count) \/ call.op = "flush"

\* the device completed the first sub-request of a 129-sector read without
\* writing the status byte: the read failed, the second sub-request was
\* never submitted, the three descriptors are free again
C10_Witness ==
    /\ pc = "idle"
    /\ call = BlkCallOf("read", 1, MAX_SECTORS_PER_REQ + 1, 0)
    /\ ret = -1
    /\ req_status = STATUS_SENTINEL
    /\ Len(reqlog) = 1
    /\ req_queue.num_free = QUEUE_SIZE
    /\ Submitted(req_queue) = 0

(***************************************************************************)
(* Termination of the block busy-wait.                                     *)
(***************************************************************************)
\* C11: with a block device that eventually marks every submitted chain
\* used, every driver call that has started eventually returns (read, write
\* and flush through the wait, transmit and poll without any help from the
\* network device, on which nothing is assumed); the block wait is left only
\* when used.idx differs from last_used_idx, so it has no other escape; at
\* every position inside transmit, reclaim and receive the driver's next
\* step is enabled whatever the devices have done.
C11_BlockWaitTermination ==
    /\ (pc # "idle") ~> (pc = "idle")
    /\ [][(pc \in {"sr_wait", "fl_wait"} /\ pc' # pc)
             => req_queue.used_idx # req_queue.last_used_idx]_vars
    /\ [](pc \in {"tx_ring", "tx_fence", "tx_idx", "tx_notify", "txc_loop",
                   "rx_loop", "rx_ring", "rx_fence", "rx_idx", "rx_adv"}
             => ENABLED NetStep)

\* the driver spins in the block wait while the network device holds an
\* unconsumed TX chain and has not been asked to do anything for the wait
C11_Witness ==
    /\ pc \in {"sr_wait", "fl_wait"}
    /\ ~WaitDone(req_queue)
    /\ Submitted(tx_queue) > 0

(***************************************************************************)
(* C12 -- transmit rejection.  A call of transmit with a frame whose       *)
(* length plus 2 exceeds the slot size BUF_SIZE, or made while the TX      *)
(* queue has no free descriptor, returns ERR_MEM in that step and leaves   *)
(* num_free, free_head, avail.idx, the descriptor table and the TX buffers *)
(* as they were; no register is written, so no queue-notify.               *)
(***************************************************************************)
C12_TransmitRejection ==
    [][\A f \in TxFrames :
          (/\ virtio_net_output(f)
           /\ f.len + 2 > BUF_SIZE \/ tx_queue.num_free = 0)
          => /\ pc' = "idle"
             /\ ret' = ERR_MEM
             /\ mmio_w' = NoWrite
             /\ UNCHANGED <<tx_queue, tx_buffers, notified, fenced, nsub>>]_vars

\* a frame of valid size was refused because all QUEUE_SIZE descriptors
\* were in flight, and they still are
C12_Witness ==
    /\ pc = "idle"
    /\ call.op = "tx"
    /\ call.count + 2 <= BUF_SIZE
    /\ ret = ERR_MEM
    /\ tx_queue.num_free = 0
    /\ Submitted(tx_queue) = QUEUE_SIZE
    /\ notified["tx"] = tx_queue.avail_idx

(***************************************************************************)
(* C13 -- TX reclaim and recovery.  Each iteration of the reclaim loop     *)
(* consumes one used entry and adds one descriptor to the free list;  the  *)
(* loop is left only with last_used_idx equal to the used.idx it read, and *)
(* then every descriptor not still with the device is free.  So a transmit *)
(* of a valid frame made when fewer than QUEUE_SIZE chains are unreclaimed *)
(* (after a refused transmit: once the device has completed a chain and    *)
(* reclaim has run) is accepted and returns ERR_OK.                        *)
(***************************************************************************)
C13_ReclaimAndRecovery ==
    [][/\ (pc = "txc_loop" /\ tx_queue'.last_used_idx # tx_queue.last_used_idx)
          => /\ tx_queue'.num_free = tx_queue.num_free + 1
             /\ tx_queue'.last_used_idx = U16(tx_queue.last_used_idx + 1)
             /\ pc' = "txc_loop"
       /\ (pc = "txc_loop" /\ pc' # "txc_loop")
          => /\ tx_queue.last_used_idx = tx_queue.used_idx
             /\ tx_queue.num_free = QUEUE_SIZE - Unconsumed(tx_queue)
             /\ UNCHANGED tx_queue
       /\ \A f \in TxFrames :
             (/\ virtio_net_output(f)
              /\ f.len + 2 <= BUF_SIZE
              /\ Submitted(tx_queue) < QUEUE_SIZE)
             => pc' = "tx_ring"
       /\ (pc = "tx_notify" /\ pc' # pc) => (pc' = "idle" /\ ret' = ERR_OK)
      ]_vars

\* the seventeenth frame is on its way after the transmit before it was
\* refused (ret still holds ERR_MEM) with QUEUE_SIZE chains in flight
C13_Witness ==
    /\ pc = "tx_notify"
    /\ call.op = "tx"
    /\ ret = ERR_MEM
    /\ tx_queue.avail_idx = QUEUE_SIZE + 1
    /\ Completed(tx_queue) = 0

(***************************************************************************)
(* C14 -- RX length validation.  The step of the receive loop that takes   *)
(* the used entry at last_used_idx hands a payload to the input callback   *)
(* only if the written length len is at least 2 and the prefix p read from *)
(* the slot satisfies 0 < p <= len - 2; what it hands over is the p bytes  *)
(* behind the prefix; an entry failing the check adds nothing.             *)
(***************************************************************************)
C14_RxLengthValidation ==
    [][(pc = "rx_loop" /\ pc' = "rx_ring")
         => LET e == rx_queue.used_ring[rx_queue.last_used_idx % QUEUE_SIZE]
                buf == rx_buffers[e.id % (QUEUE_SIZE \div 2)]
                p == buf.b0 * 256 + buf.b1
            IN IF e.len >= 2 /\ 0 < p /\ p <= e.len - 2
               THEN input_log' \in {input_log,
                                    Append(input_log, [id |-> buf.payload.id,
                                                       len |-> p])}
               ELSE input_log' = input_log]_vars

\* in one pass a frame was forwarded and the next buffer, whose prefix is
\* one above written length - 2, was taken without forwarding
C14_Witness ==
    /\ pc = "rx_ring"
    /\ Len(input_log) = 1
    /\ loc.len >= 2
    /\ PrefixOf(rx_buffers[RxSlotIndex(loc.desc0)]) = loc.len - 1

(***************************************************************************)
(* C15 -- RX re-post count.  Every buffer the receive loop consumes is     *)
(* back on the available ring before last_used_idx passes it: avail.idx    *)
(* minus last_used_idx is QUEUE_SIZE / 2, the number of posted buffers, at *)
(* every point except between the two increments of one iteration, where   *)
(* it is one more.  The iteration is the same for a valid frame, a bad     *)
(* prefix, a written length below 2 and a failed hand-over.                *)
(***************************************************************************)
C15_RxRepostCount ==
    Submitted(rx_queue) =
        (QUEUE_SIZE \div 2) + (IF pc = "rx_adv" THEN 1 ELSE 0)

\* two buffers were consumed in one pass, neither was forwarded (a written
\* length below 2 among them), and both are posted again
C15_Witness ==
    /\ pc = "rx_loop"
    /\ rx_queue.last_used_idx = 2
    /\ rx_queue.avail_idx = (QUEUE_SIZE \div 2) + 2
    /\ input_log = << >>
    /\ \E i \in 0..1 : rx_queue.used_ring[i].len < 2

(***************************************************************************)
(* C16 -- frame round-trip.  For a frame of 1 to BUF_SIZE - 2 bytes and a  *)
(* TX queue with a free descriptor, transmit writes the length as two      *)
(* bytes, high byte first, and the frame behind them into the slot of the  *)
(* descriptor it pops, and sets the descriptor length to the frame length  *)
(* plus 2; its remaining steps never wait for the device.  A receive step  *)
(* that finds such a slot image, marked used with that length, forwards    *)
(* the frame as it was transmitted (or nothing, when no pbuf is to be      *)
(* had).  With a device that echoes, the input callback sees transmitted   *)
(* frames only.                                                            *)
(***************************************************************************)
C16_FrameRoundTrip ==
    /\ [][\A f \in TxFrames \cup EchoFrames :
            /\ (/\ virtio_net_output(f)
                /\ 1 <= f.len /\ f.len <= BUF_SIZE - 2
                /\ tx_queue.num_free > 0)
               => LET d == tx_queue.free_head
                  IN /\ tx_buffers'[d] = [b0 |-> f.len \div 256,
                                          b1 |-> f.len % 256,
                                          payload |-> [id |-> f.id,
                                                       len |-> f.len]]
                     /\ tx_queue'.descs[d].len = f.len + 2
                     /\ tx_queue'.descs[d].addr = TX_BUF_BASE + d
                     /\ pc' = "tx_ring"
            /\ (/\ pc = "rx_loop" /\ pc' = "rx_ring"
                /\ LET e == rx_queue.used_ring[rx_queue.last_used_idx % QUEUE_SIZE]
                   IN /\ e.len = f.len + 2
                      /\ rx_buffers[e.id % (QUEUE_SIZE \div 2)] =
                            [b0 |-> f.len \div 256, b1 |-> f.len % 256,
                             payload |-> [id |-> f.id, len |-> f.len]]
                /\ 1 <= f.len /\ f.len <= BUF_SIZE - 2)
               => input_log' \in {input_log, Append(input_log, f)}]_vars
    /\ [](pc \in {"tx_ring", "tx_fence", "tx_idx", "tx_notify"}
            => ENABLED (virtio_net_output_ring \/ virtio_net_output_fence
                          \/ virtio_net_output_idx \/ virtio_net_output_notify))
    /\ [](scenario = "echo"
            => \A i \in 1 .. Len(input_log) : input_log[i] \in EchoFrames)

\* the longest frame was transmitted, echoed into the first RX buffer with
\* written length BUF_SIZE, and forwarded by the poll that followed
C16_Witness ==
    /\ pc = "idle"
    /\ call.op = "poll"
    /\ input_log = <<[len |-> BUF_SIZE - 2, id |-> 4]>>
    /\ tx_buffers[0].payload = [len |-> BUF_SIZE - 2, id |-> 4]
    /\ rx_queue.used_ring[0].len = BUF_SIZE
    /\ rx_queue.last_used_idx = 1

C18_SingleDrainerPerQueue ==
    /\ (trap.active /\ pc = "txc_loop") => trap.pc # "txc_loop"
    /\ (trap.active /\ pc \in {"rx_loop", "rx_ring", "rx_fence", "rx_idx",
                                "rx_adv"})
          => trap.pc \notin {"rx_loop", "rx_ring", "rx_fence", "rx_idx", "rx_adv"}
    /\ Completed(tx_queue) <= Submitted(tx_queue)
    /\ Completed(rx_queue) <= Submitted(rx_queue)

(***************************************************************************)
(* C19 -- claim/complete discipline.  In a machine external interrupt trap *)
(* the handler writes the completion register only with the source id it   *)
(* claimed, only when that id is nonzero, once, and for the FIFO source    *)
(* only when virtio_net_irq_handler has returned; a trap whose claim read  *)
(* 0 returns without a completion, and a claimed source without a handler  *)
(* is completed straight after the claim.                                  *)
(***************************************************************************)
C19_ClaimCompleteDiscipline ==
    /\ [][/\ (pc = "trap_complete" /\ pc' # pc)
             => /\ trap.irq # 0
                /\ trap.done = 0
                /\ mmio_w' = PlicComplete(trap.irq)
                /\ pc' = "trap_ret"
          /\ (pc' = "trap_complete" /\ pc # pc')
             => IF trap'.irq = VIRTIO_FIFO_INT_ID
                THEN /\ pc = "rx_loop"
                     /\ rx_queue.last_used_idx = rx_queue.used_idx
                ELSE pc = "trap_claim" /\ trap'.irq # 0
          /\ (pc = "trap_claim" /\ pc' # pc /\ trap'.irq = 0)
             => pc' = "trap_ret"
          /\ (pc = "trap_ret" /\ pc' # pc)
             => trap.done = (IF trap.irq # 0 THEN 1 ELSE 0)
          /\ mmio_w'.dev = "plic" => (pc = "trap_complete" \/ UNCHANGED mmio_w)
         ]_vars
    /\ [](trap.active /\ pc \notin {"trap_complete", "trap_ret"}
            => trap.done = 0)

\* a claimed source that has no handler has just been completed, in a trap
\* that interrupted the driver inside the receive loop
C19_Witness ==
    /\ pc = "trap_ret"
    /\ trap.irq = OTHER_INT_ID
    /\ trap.done = 1
    /\ mmio_w = PlicComplete(OTHER_INT_ID)
    /\ trap.pc = "rx_ring"

(***************************************************************************)
(* Bring-up failures.                                                      *)
(***************************************************************************)
\* a probe that returned -1: the device was tried, nothing is running and
\* its status register was never written
ProbeFailed(d) == d \in hs.called /\ hs.dev # d /\ hs.status[d] = 0

\* C21: when the device has cleared FeaturesOk after the driver wrote it,
\* the initialization of that device fails: DriverOk is never written to
\* it, and the block device is not marked initialized.
C21_FeatureRejectionDetected ==
    \A d \in {"blk", "net"} :
        hs.rej[d] =>
            /\ (hs.status[d] \div VIRTIO_STATUS_DRIVER_OK) % 2 = 0
            /\ d = "blk" => blk_initialized = 0

\* C22: a queue whose maximum size at the device is below 16 is never given
\* the size 16 nor marked ready.
C22_QueueSizeChecked ==
    \A q \in Queues :
        hs.nummax[q] < QUEUE_SIZE =>
            hs.regs[q].num = 0 /\ hs.regs[q].ready = 0

\* C23: the probe reads magic, version and device id in that order and
\* stops at the first that is wrong; it fails exactly when one of them is
\* wrong (magic 0x74726976, version 2, device id 2 for the block driver and
\* 0x1F for the FIFO driver).  A failed probe returns -1 having written no
\* register and initialized no queue, and from then on the device's status
\* and queue registers stay as they were, its queues stay zeroed, and
\* virtio_blk_available() reports 0 for the block device.
C23_ProbeFailureNoSideEffects ==
    /\ [][(pc = "idle" /\ hs'.called # hs.called) =>
            LET d == CHOOSE x \in hs'.called : x \notin hs.called
                r == hs'.reads
                expected == <<VIRTIO_MAGIC, VIRTIO_VERSION,
                              IF d = "blk" THEN 2 ELSE 31>>
                wrong == r[Len(r)] # expected[Len(r)]
            IN /\ Len(r) \in 1 .. 3
               /\ \A i \in 1 .. (Len(r) - 1) : r[i] = expected[i]
               /\ Len(r) < 3 => wrong
               /\ wrong <=> (pc' = "idle" /\ ret' = -1)
               /\ ~wrong <=> pc' = "init"
               /\ wrong => /\ mmio_w' = NoWrite
                           /\ hs'.status = hs.status
                           /\ hs'.regs = hs.regs
                           /\ UNCHANGED <<req_queue, tx_queue, rx_queue,
                                          blk_initialized, fenced, notified>>]_vars
    /\ [](ProbeFailed("blk") =>
            /\ blk_initialized = 0
            /\ req_queue = ZeroQueue
            /\ hs.regs["blk"] = NoQueueRegs)
    /\ [](ProbeFailed("net") =>
            /\ tx_queue = ZeroQueue
            /\ rx_queue = ZeroQueue
            /\ hs.regs["tx"] = NoQueueRegs
            /\ hs.regs["rx"] = NoQueueRegs)

\* the FIFO driver was initialized; the block device then answered the
\* probe with the right magic and version and the FIFO's device id, and
\* virtio_blk_init returned -1
C23_Witness ==
    /\ pc = "idle"
    /\ ret = -1
    /\ ProbeFailed("blk")
    /\ hs.reads = <<VIRTIO_MAGIC, VIRTIO_VERSION, VIRTIO_ID_FIFO>>
    /\ hs.status["net"] = 15
    /\ blk_initialized = 0
    /\ mmio_w = NoWrite

\* C24: when the bring-up of a device fails, the failure reaches the caller
\* as a nonzero result and the system goes on: main() is never halted, and
\* a device is initialized at most once.
C24_BringUpFailureNotFatal ==
    /\ hs.main # "halted"
    /\ \A d \in {"blk", "net"} :
         (ProbeFailed(d) /\ pc = "idle"
            /\ hs.main = (IF d = "net" THEN "virtio_net_init" ELSE "fs_init"))
           => ret # 0

(***************************************************************************)
(* Driver calls made before a device is ready: any of the five entry       *)
(* points, whenever no call is running and the device's status register    *)
(* has not been given DRIVER_OK.                                           *)
(***************************************************************************)
DeviceOfCall(op) == IF op \in {"read", "write", "flush"} THEN "blk" ELSE "net"

NotReady(d) == (hs.status[d] \div VIRTIO_STATUS_DRIVER_OK) % 2 = 0

EarlyCall ==
    /\ scenario = "boot"
    /\ \/ NotReady("blk") /\ \E a \in BlkArgs : virtio_blk_read(a.sector, a.count)
       \/ NotReady("blk") /\ \E a \in BlkArgs, tag \in Tags :
                                virtio_blk_write(a.sector, a.count, tag)
       \/ NotReady("blk") /\ virtio_blk_flush
       \/ NotReady("net") /\ \E f \in TxFrames : virtio_net_output(f)
       \/ NotReady("net") /\ virtio_net_poll

NextEarly == NextInit \/ EarlyCall

SpecEarly == InitBoot /\ [][NextEarly]_vars

\* C25: a read, write, flush, transmit or receive call on a device whose
\* initialization has not reached DriverOk returns an error and leaves the
\* device's queues and registers as they were; blk_initialized becomes 1
\* only once DriverOk has been written and never returns to 0.
C25_NotReadyRejection ==
    /\ [][(/\ pc = "idle"
           /\ hs' = hs
           /\ call'.op \in {"read", "write", "flush", "tx", "poll"}
           /\ NotReady(DeviceOfCall(call'.op)))
          => /\ pc' = "idle"
             /\ ret' # 0
             /\ mmio_w' = NoWrite
             /\ UNCHANGED <<req_queue, tx_queue, rx_queue, tx_buffers,
                            fenced, notified>>]_vars
    /\ [][blk_initialized = 1 => blk_initialized' = 1]_vars
    /\ [](blk_initialized = 1 => ~NotReady("blk"))

(***************************************************************************)
(* Ring positions.  A queue's k-th chain, counted from the index the       *)
(* behaviour starts with, goes through slot k mod QUEUE_SIZE of the        *)
(* available ring and comes back through the same slot of the used ring.   *)
(***************************************************************************)
StartIdx(q) ==
    CASE q = "blk" -> BlkStart.avail_idx
      [] q = "tx"  -> TxStart.avail_idx
      [] q = "rx"  -> QUEUE_SIZE \div 2

SubmissionNo(q) == U16(StartIdx(q) + nsub[q])

AtRing(q) ==
    CASE q = "blk" -> pc \in {"sr_ring", "fl_ring"}
      [] q = "tx"  -> pc = "tx_ring"
      [] q = "rx"  -> pc = "rx_ring"

\* the slot write of a submission changes slot k mod 16 and no other
SlotOfSubmission(q) ==
    (AtRing(q) /\ pc' # pc) =>
       Q(q)'.avail_ring = [Q(q).avail_ring EXCEPT
                             ![SubmissionNo(q) % QUEUE_SIZE] = loc.desc0]

\* the completion of the k-th chain is published in slot k mod 16 of the
\* used ring and names the head found in slot k mod 16 of the available ring
SlotOfCompletion(q) ==
    Q(q)'.used_idx # Q(q).used_idx =>
       LET k == Q(q).used_idx
       IN /\ Q(q)'.used_idx = U16(k + 1)
          /\ Q(q)'.used_ring[k % QUEUE_SIZE].id = Q(q).avail_ring[k % QUEUE_SIZE]
          /\ \A i \in DescIdx \ {k % QUEUE_SIZE} :
                Q(q)'.used_ring[i] = Q(q).used_ring[i]

\* the block driver takes the entry of the chain it has just submitted
BlkTakesOwn ==
    req_queue'.last_used_idx # req_queue.last_used_idx =>
       /\ req_queue'.last_used_idx = req_queue.avail_idx
       /\ UsedEntry(req_queue).id = loc.desc0

\* C26: ring wraparound.  On the request and the TX queue the k-th
\* submission, for k beyond the ring size and across the wrap of the 16-bit
\* indices from 65535 to 0, uses slot k mod 16 of the available ring and of
\* the used ring; avail.idx is the number of submissions modulo 2^16; the
\* block driver takes the entry of the chain it submitted, the TX descriptor
\* an entry names is the one reclaimed; a block write that returned 0 has
\* put its data on the medium and a block read that returned 0 has returned
\* what the medium holds.
C26_RingWraparound ==
    /\ [](\A q \in {"blk", "tx"} : Q(q).avail_idx = SubmissionNo(q))
    /\ [][\A q \in {"blk", "tx"} : SlotOfSubmission(q) /\ SlotOfCompletion(q)]_vars
    /\ [][BlkTakesOwn /\ TxDrainInOrder]_vars
    /\ []((pc = "idle" /\ ret = 0 /\ call.op = "read" /\ call.count > 0) =>
            \A k \in 0 .. (call.count - 1) : rbuf[k] = disk[call.sector + k])
    /\ []((pc = "idle" /\ ret = 0 /\ call.op = "write" /\ call.count > 0) =>
            \A k \in 0 .. (call.count - 1) :
               disk[call.sector + k] = Pat(call.tag, k))

\* 49 block requests in a row, writes and reads in turn: the last one, a
\* write published in slot 0 of both rings, has returned 0 and its data is
\* on the medium
C26_Witness ==
    /\ scenario = "blkseq"
    /\ pc = "idle"
    /\ ret = 0
    /\ call.op = "write"
    /\ nsub["blk"] = 3 * QUEUE_SIZE + 1
    /\ req_queue.avail_idx = 3 * QUEUE_SIZE + 1
    /\ req_queue.last_used_idx = 3 * QUEUE_SIZE + 1
    /\ req_queue.used_ring[0].len = 1
    /\ disk[1] = Pat(1, 0)

\* block requests submitted at indices 65534 and 65535 and completed, the
\* second one a read that returned the data of the first; the next index is 0
C26_WrapWitness ==
    /\ scenario = "blkwrap"
    /\ pc = "idle"
    /\ ret = 0
    /\ call.op = "read"
    /\ lastw.op = "write"
    /\ rbuf[1] = Pat(lastw.tag, 1)
    /\ nsub["blk"] = 2
    /\ req_queue.avail_idx = 0
    /\ req_queue.last_used_idx = 0
    /\ req_queue.used_idx = 0

\* C28: a receive pass processes only the used-ring entries that were
\* published when it started, so never more than QUEUE_SIZE of them,
\* whatever the device completes while the pass runs: the buffers re-posted
\* since the last queue-notify, which ends a pass, are at most QUEUE_SIZE.
C28_ReceiveFinitePerCall ==
    U16(rx_queue.avail_idx - notified["rx"]) <= QUEUE_SIZE

(***************************************************************************)
(* The block driver with a device that reported a block size of its own.   *)
(* data_buffer has MaxChunkBytes bytes.  A copy of more bytes than that    *)
(* into or out of it has no defined outcome,                               *)
(* so a behaviour is followed up to that point and no further: a write up  *)
(* to its memcpy into data_buffer, a read up to the point where its chain  *)
(* has been handed to the device.                                          *)
(***************************************************************************)
\* (sector, count) of the calls explored: a short one, the longest one that
\* fits data_buffer with blocks of 1024 bytes, and one block more
BsizeArgs == {[sector |-> 1, count |-> 2],
              [sector |-> 1, count |-> MAX_SECTORS_PER_REQ \div 2],
              [sector |-> 1, count |-> MAX_SECTORS_PER_REQ \div 2 + 1]}

BsizeCall ==
    /\ scenario = "bsize"
    /\ nsub["blk"] < MaxBsizeReq
    /\ \/ \E a \in BsizeArgs : virtio_blk_read(a.sector, a.count)
       \/ \E a \in BsizeArgs, tag \in Tags :
            virtio_blk_write(a.sector, a.count, tag)
       \/ virtio_blk_flush

Overrun ==
    /\ loc.len > MaxChunkBytes
    /\ loc.op = "write" \/ pc = "sr_wait"

NextBsize ==
    \/ BsizeCall
    \/ ~Overrun /\ BlkStep
    \/ ~Overrun /\ \E st \in DeviceStatuses : DevBlk(st)

InitBsize == Init /\ scenario = "bsize"

SpecBsize == InitBsize /\ [][NextBsize]_vars

\* C30: whatever block size the device reported and whatever the sector
\* count of the call, the data descriptor of a block sub-request is never
\* longer than data_buffer, and the length copied into or out of
\* data_buffer by virtio_blk_write and virtio_blk_read never exceeds it.
C30_ScratchBufferBound ==
    /\ \A i \in DescIdx :
          req_queue.descs[i].addr = ADDR_DATA_BUFFER
             => req_queue.descs[i].len <= MaxChunkBytes
    /\ loc.op \in {"read", "write"} => loc.len <= MaxChunkBytes

(***************************************************************************)
(* Devices that break the protocol.  A block device that answers a chain   *)
(* with a used entry naming another descriptor and does nothing else, and  *)
(* a FIFO device that moves the used index of a queue one step backward    *)
(* or leaves a malformed length prefix in an RX buffer.  After a backward  *)
(* move the driver's loops see last_used_idx != used.idx until             *)
(* last_used_idx has gone round the 16-bit range; a behaviour is followed  *)
(* for the first MaxViolDrain entries of that.                             *)
(***************************************************************************)
DevBlkWrongId ==
    /\ scenario = "violblk"
    /\ req_queue.used_idx # req_queue.avail_idx
    /\ \E id \in DescIdx :
         /\ id # req_queue.avail_ring[req_queue.used_idx % QUEUE_SIZE]
         /\ id < MaxViolReq + 1
         /\ req_queue' = PushUsed(req_queue, id, 0)
    /\ blk_int' = 1
    /\ UNCHANGED <<req_header, req_status, data_buffer, blk_initialized,
                   blk_capacity, blk_sector_size, disk, rbuf, reqlog, pc, loc,
                   ret, mmio_w, fenced, notified, nsub>>
    /\ UNCHANGED <<netvars, scenario, trap, hs, call, lastw>>

DevUsedBackward ==
    /\ scenario = "violnet"
    /\ \/ /\ tx_queue.last_used_idx = tx_queue.used_idx
          /\ tx_queue.used_idx # 0
          /\ tx_queue' = [tx_queue EXCEPT !.used_idx = U16(@ - 1)]
          /\ UNCHANGED rx_queue
       \/ /\ rx_queue.last_used_idx = rx_queue.used_idx
          /\ rx_queue.used_idx # 0
          /\ rx_queue' = [rx_queue EXCEPT !.used_idx = U16(@ - 1)]
          /\ UNCHANGED tx_queue
    /\ net_int' = 1
    /\ UNCHANGED <<tx_buffers, rx_buffers, input_log, pc, loc, ret, mmio_w,
                   fenced, notified, nsub>>
    /\ UNCHANGED <<blkvars, scenario, trap, hs, call, lastw>>

\* A FIFO device that takes the next chain of the TX or RX available ring
\* and marks it used under another id: a descriptor the driver never gave
\* it.  An RX buffer is filled as by DevRx.
WrongNetIds == {QUEUE_SIZE \div 2}
DevNetWrongId ==
    /\ scenario = "violid"
    /\ \E id \in WrongNetIds :
         \/ /\ tx_queue.used_idx # tx_queue.avail_idx
            /\ id # tx_queue.avail_ring[tx_queue.used_idx % QUEUE_SIZE]
            /\ tx_queue' = PushUsed(tx_queue, id, 0)
            /\ UNCHANGED <<rx_queue, rx_buffers>>
         \/ /\ rx_queue.used_idx # rx_queue.avail_idx
            /\ RxCompleted < RxCap
            /\ LET head == rx_queue.avail_ring[rx_queue.used_idx % QUEUE_SIZE]
               IN /\ id # head
                  /\ \E im \in RxImages :
                       /\ rx_buffers' =
                            [rx_buffers EXCEPT
                               ![rx_queue.descs[head].addr - RX_BUF_BASE] = im.slot]
                       /\ rx_queue' = PushUsed(rx_queue, id, im.wlen)
            /\ UNCHANGED tx_queue
    /\ net_int' = 1
    /\ UNCHANGED <<tx_buffers, input_log, pc, loc, ret, mmio_w, fenced,
                   notified, nsub>>
    /\ UNCHANGED <<blkvars, scenario, trap, hs, call, lastw>>

ViolBlkCall ==
    /\ scenario = "violblk"
    /\ nsub["blk"] < MaxViolReq
    /\ \/ virtio_blk_read(1, 2)
       \/ virtio_blk_write(1, 2, 1)
       \/ virtio_blk_flush

\* last_used_idx is at most MaxViolDrain entries beyond used.idx
DrainFollowed ==
    \A q \in {"tx", "rx"} :
       LET beyond == U16(Q(q).last_used_idx - Q(q).used_idx)
       IN beyond <= MaxViolDrain \/ beyond >= TWO16 \div 2

NextViol ==
    \/ ViolBlkCall
    \/ BlkStep
    \/ \E st \in DeviceStatuses : DevBlk(st)
    \/ DevBlkWrongId
    \/ NetCall
    \/ DrainFollowed /\ NetStep
    \/ NetDev
    \/ DevUsedBackward

InitViol == Init /\ scenario \in {"violblk", "violnet"}

SpecViol == InitViol /\ [][NextViol]_vars

\* the descriptors in the last QUEUE_SIZE / 2 slots written to the RX
\* available ring: the buffers posted to the device
RECURSIVE LastPosted(_, _)
LastPosted(q, n) ==
    IF n = 0 THEN << >>
    ELSE Append(LastPosted(q, n - 1), q.avail_ring[U16(q.avail_idx - n) % QUEUE_SIZE])

\* C27: with a device that leaves a malformed length prefix in an RX buffer
\* or moves a used index backward, only well-formed frames are forwarded
\* and the TX and RX queues stay consistent: no descriptor is freed twice
\* (the free list holds each descriptor at most once and at most QUEUE_SIZE
\* of them), no RX buffer is posted twice, and between calls num_free plus
\* the chains in flight is QUEUE_SIZE.
C27_ViolationsKeepQueueConsistent ==
    /\ \A i \in DOMAIN input_log :
          input_log[i].len > 0 /\ input_log[i].len <= BUF_SIZE - 2
    /\ \A q \in {"tx", "rx"} :
          /\ Q(q).num_free <= QUEUE_SIZE
          /\ NoDup(FreeList(Q(q)))
    /\ NoDup(LastPosted(rx_queue, QUEUE_SIZE \div 2))
    /\ pc = "idle" =>
          /\ tx_queue.num_free + Submitted(tx_queue) = QUEUE_SIZE
          /\ rx_queue.num_free + Submitted(rx_queue) = QUEUE_SIZE

\* C29: wait_for_completion ends, and the request goes on to free its
\* descriptors and return, only on a used entry whose id is the head of the
\* chain the request submitted; an entry with another id leaves it waiting.
C29_WaitEndsOnSubmittedChain ==
    [][req_queue'.last_used_idx # req_queue.last_used_idx
          => /\ pc \in {"sr_wait", "fl_wait"}
             /\ req_queue.used_idx # req_queue.last_used_idx
             /\ UsedEntry(req_queue).id = loc.desc0]_vars

(***************************************************************************)
(* The block driver called with sectors from both ends of the uint64_t     *)
(* range: the first sector, the last sector of the device, the sector      *)
(* after it, and the last two values of the range, 2^64 - 2 and 2^64 - 1.  *)
(***************************************************************************)
RangeSectors == {0, BlkCapacity - 1, BlkCapacity, -2, -1}

RangeCounts == {1, 2, 3}

RangeCall ==
    /\ scenario = "range"
    /\ nsub["blk"] < MaxRangeReq
    /\ \/ \E sector \in RangeSectors, count \in RangeCounts :
            virtio_blk_read(sector, count)
       \/ \E sector \in RangeSectors, count \in RangeCounts :
            virtio_blk_write(sector, count, 1)
       \/ virtio_blk_flush

NextRange ==
    \/ RangeCall
    \/ BlkStep
    \/ \E st \in DeviceStatuses : DevBlk(st)

InitRange == Init /\ scenario = "range"

SpecRange == InitRange /\ [][NextRange]_vars

\* the sum of a uint64_t sector and a count as a number, without the wrap,
\* is at most the capacity
MathSumInRange(sector, count) == sector >= 0 /\ sector + count <= blk_capacity

\* C31: a read or write gets past its validation only when sector + count,
\* taken as a number and not modulo 2^64, is at most the capacity of the
\* device, and every sub-request handed to the device ends at or below the
\* capacity.
C31_RangeCheckFixedWidth ==
    /\ (pc # "idle" /\ loc.op \in {"read", "write"})
          => MathSumInRange(call.sector, call.count)
    /\ \A i \in DOMAIN reqlog :
          reqlog[i].type # VIRTIO_BLK_T_FLUSH
             => MathSumInRange(reqlog[i].sector, SectorsOf(reqlog[i].len))


(***************************************************************************)
(* The block driver has a chain out of the free list from the allocation   *)
(* in submit_request or virtio_blk_flush to the push back after the wait.  *)
(***************************************************************************)
BlkChainOut == pc \in {"sr_ring", "sr_fence", "sr_idx", "sr_notify", "sr_wait",
                       "sr_free", "fl_ring", "fl_fence", "fl_idx", "fl_notify",
                       "fl_wait", "fl_free"}

\* free_head, num_free and every next link are those init_queue left
FreeListAsInit(q) ==
    /\ q.free_head = init_queue.free_head
    /\ q.num_free = init_queue.num_free
    /\ \A d \in DescIdx : q.descs[d].next = init_queue.descs[d].next

(***************************************************************************)
(* C35 -- the block free list is restored exactly.  Whenever the block     *)
(* driver has no chain out, that is before the first request and after     *)
(* every completed request or flush, whatever status the device reported,  *)
(* free_head, num_free and the next links of the request queue are those   *)
(* of the freshly initialized queue: head 0, 16 free, 0 -> 1 -> ... -> 15. *)
(* So every request starts with num_free = 16 and never takes the          *)
(* no-free-descriptors branch.                                             *)
(***************************************************************************)
C35_BlockFreeListRestored ==
    /\ ~BlkChainOut => FreeListAsInit(req_queue)
    /\ BlkChainOut => loc.desc0 = 0 /\ loc.desc1 = 1
    /\ (pc \in {"rd_ret", "wr_ret"} /\ loc.rc = -1) => Len(reqlog) >= 1

\* a request and a flush have completed, the latest with an I/O error, and
\* the descriptors they used are back on the list in the initial order
C35_Witness ==
    /\ scenario = "blk"
    /\ pc = "idle"
    /\ ret = -1
    /\ req_status = VIRTIO_BLK_S_IOERR
    /\ req_queue.last_used_idx = 2
    /\ req_queue.descs[2].addr = ADDR_REQ_STATUS
    /\ req_queue.descs[1].addr = ADDR_REQ_STATUS
    /\ FreeList(req_queue) = [i \in 1 .. QUEUE_SIZE |-> i - 1]


(***************************************************************************)
(* The RX descriptors that are out of the free list: posted and not yet    *)
(* marked used, marked used and not yet taken by virtio_net_input, or      *)
(* taken by it and not yet back in the available ring.                     *)
(***************************************************************************)
RxPosted == U16(rx_queue.avail_idx - rx_queue.used_idx)
RxAwaitingRepost ==
    U16(rx_queue.used_idx - rx_queue.last_used_idx)
        - (IF pc = "rx_adv" THEN 1 ELSE 0)
RxPopulation == QUEUE_SIZE \div 2
RxBound(d) ==
    rx_queue.descs[d] = [addr |-> RX_BUF_BASE + d, len |-> BUF_SIZE,
                         flags |-> VRING_DESC_F_WRITE, next |-> 0]

(***************************************************************************)
(* C36 -- the RX population is constant.  From the write of DriverOk to    *)
(* the FIFO device on, 8 RX descriptors are out of the free list: num_free *)
(* is 8 and the free list is 8 -> 9 -> ... -> 15, so descriptors 8..15 are *)
(* never posted; the buffers the device owns plus the completed ones not   *)
(* yet re-posted are 8, and they are descriptors 0..7, each once; and      *)
(* descriptor d is device-writable, 2048 bytes long, and carries the       *)
(* address of slot d, initially and after every re-post.                   *)
(***************************************************************************)
C36_RxPopulationConstant ==
    ~NotReady("net") =>
       /\ rx_queue.num_free = RxPopulation
       /\ FreeList(rx_queue) = [i \in 1 .. RxPopulation |-> RxPopulation + i - 1]
       /\ RxPosted + RxAwaitingRepost = RxPopulation
       /\ SeqSet(InFlightNow("rx") \o Held("rx")) = 0 .. (RxPopulation - 1)
       /\ Len(InFlightNow("rx") \o Held("rx")) = RxPopulation
       /\ \A d \in 0 .. (RxPopulation - 1) : RxBound(d)
       /\ \A i \in DescIdx : rx_queue.avail_ring[i] < RxPopulation

\* every buffer has been completed and re-posted twice, and the device has
\* completed two more that the driver has not taken yet
C36_Witness ==
    /\ scenario = "rx"
    /\ rx_queue.avail_idx = 3 * RxPopulation
    /\ rx_queue.used_idx = 2 * RxPopulation + 2
    /\ RxPosted = RxPopulation - 2
    /\ RxAwaitingRepost = 2

\* DriverOk has just been written to the FIFO device, after
\* setup_rx_buffers has posted the eight buffers
C36_InitWitness ==
    /\ scenario = "boot"
    /\ pc = "init"
    /\ hs.dev = "net"
    /\ ~NotReady("net")
    /\ rx_queue = setup_rx_buffers(init_queue)
    /\ RxPosted = RxPopulation


(***************************************************************************)
(* The RX descriptors the device owns: the heads in the available ring     *)
(* from used.idx up to avail.idx.  A slot is posted when one of them       *)
(* carries its address.                                                    *)
(***************************************************************************)
RxPostedDescs ==
    SeqSet(InFlightFrom(rx_queue, rx_queue.used_idx,
                        Pending(rx_queue, rx_queue.used_idx)))
RxSlotPosted(s) ==
    \E d \in RxPostedDescs : rx_queue.descs[d].addr = RX_BUF_BASE + s

\* the iteration of virtio_net_input that reads the used entry, the prefix
\* and the payload
RxRead == pc = "rx_loop" /\ pc' = "rx_ring"

(***************************************************************************)
(* C37 -- RX buffer ownership.  When virtio_net_input reads a slot, the    *)
(* descriptor it has taken is the one of the oldest used entry not yet     *)
(* drained, and no descriptor that the device owns carries the address of  *)
(* the slot read: the read falls after the completion and before the       *)
(* re-post.  A frame reaches the stack only in that step, which comes      *)
(* before the write of the available ring; the steps that write the ring   *)
(* slot and avail.idx hand nothing to the stack.                           *)
(***************************************************************************)
C37_RxBufferOwnership ==
    [][/\ RxRead =>
            /\ Completed(rx_queue) >= 1
            /\ loc'.desc0 = UsedEntry(rx_queue).id
            /\ ~RxSlotPosted(RxSlotIndex(loc'.desc0))
            /\ loc'.desc0 \notin RxPostedDescs
       /\ (input_log' # input_log /\ input_log' # << >>) =>
            /\ RxRead
            /\ rx_queue'.avail_ring = rx_queue.avail_ring
            /\ rx_queue'.avail_idx = rx_queue.avail_idx
      ]_vars

\* the device owns six buffers and has completed two; the driver has copied
\* the frame of the first out of a slot that went round once before, and
\* has not yet written it back into the available ring
C37_Witness ==
    /\ scenario = "rx"
    /\ pc = "rx_ring"
    /\ rx_queue.last_used_idx = QUEUE_SIZE \div 2
    /\ Len(input_log) = 1
    /\ Completed(rx_queue) = 2
    /\ Cardinality(RxPostedDescs) = QUEUE_SIZE \div 2 - 2
    /\ loc.desc0 \notin RxPostedDescs


(***************************************************************************)
(* The network driver with a FIFO device that writes ids and lengths of    *)
(* its own into the used entries.  OverLengthImages: a written length one  *)
(* above the size of the buffer, with a prefix that is valid for it.       *)
(***************************************************************************)
OverLengthImages ==
    {[slot |-> FrameSlot([len |-> BUF_SIZE - 1, id |-> 12]), wlen |-> BUF_SIZE + 1]}

NextViolId ==
    \/ NetCall
    \/ NetStep
    \/ NetDev
    \/ DevNetWrongId
    \/ \E im \in OverLengthImages :
         RxCompleted < RxCap /\ DevRx(im.slot, im.wlen)

InitViolId == Init /\ scenario = "violid"

SpecViolId == InitViolId /\ [][NextViolId]_vars

\* the iteration of virtio_net_tx_complete that takes a used entry
TxReclaim == pc = "txc_loop" /\ tx_queue'.last_used_idx # tx_queue.last_used_idx

(***************************************************************************)
(* C38 -- device-supplied descriptor ids stay in range.  Whenever          *)
(* virtio_net_tx_complete or virtio_net_input takes the id of a used entry *)
(* and indexes the descriptor table, the free list or the RX buffers with  *)
(* it, the id is below QUEUE_SIZE and is the head of a chain that is in    *)
(* flight on that queue: submitted and not yet taken back.                 *)
(***************************************************************************)
C38_DeviceIdsInRange ==
    [][/\ TxReclaim =>
            /\ UsedEntry(tx_queue).id \in DescIdx
            /\ UsedEntry(tx_queue).id \in SeqSet(InFlight(tx_queue))
       /\ RxRead =>
            /\ UsedEntry(rx_queue).id \in DescIdx
            /\ UsedEntry(rx_queue).id \in SeqSet(InFlight(rx_queue))
      ]_vars


(***************************************************************************)
(* C39 -- forwarded frames fit the slot.  Whatever written length the      *)
(* device reports in a used RX entry, every frame virtio_net_input hands   *)
(* to the stack lies inside the 2048-byte slot it was read from: its       *)
(* length plus the 2 bytes of the prefix is at most BUF_SIZE.              *)
(***************************************************************************)
C39_ForwardedFramesFitSlot ==
    \A i \in DOMAIN input_log : input_log[i].len + 2 <= BUF_SIZE


(***************************************************************************)
(* The network driver under preemption, with the transmit taken apart at   *)
(* its accesses to the TX free list: the main loop transmits and polls,    *)
(* and a trap can be taken between any two of its steps.                   *)
(***************************************************************************)
PreemptCall ==
    /\ scenario = "irq"
    /\ \/ \E f \in TxFrames :
            /\ ~FrameTooLarge(f)
            /\ nsub["tx"] < MaxPreemptTx
            /\ virtio_net_output_head(f)
       \/ virtio_net_poll

NextPreempt ==
    \/ PreemptCall
    \/ virtio_net_output_pop
    \/ rx_queue.last_used_idx < MaxIrqDrain /\ NetStep
    \/ NetDev
    \/ TrapStep
    \/ PlicGateway
    \/ PlicOther

SpecPreempt == InitIrq /\ [][NextPreempt]_vars

(***************************************************************************)
(* C32 -- the TX free list under preemption.  With the interrupt handler   *)
(* running between any two steps of a transmit of the main loop, the TX    *)
(* free list stays well formed: free_head leads through num_free distinct  *)
(* descriptors, none of them in a chain that is in flight or held by the   *)
(* transmit that is running, and every descriptor is on the list, in       *)
(* flight, or held.                                                        *)
(***************************************************************************)
TxHeldNow ==
    LET at == IF trap.active THEN trap.pc ELSE pc
        d == IF trap.active THEN trap.loc.desc0 ELSE loc.desc0
    IN IF at \in {"tx_ring", "tx_fence", "tx_idx"} THEN <<d>> ELSE << >>

C32_TxFreeListUnderPreemption ==
    LET owned == FreeList(tx_queue) \o InFlight(tx_queue) \o TxHeldNow
    IN /\ Len(FreeList(tx_queue)) = tx_queue.num_free
       /\ NoDup(owned)
       /\ SeqSet(owned) = DescIdx


(***************************************************************************)
(* The stack's callbacks.  netif->input, which virtio_net_input calls for  *)
(* a frame it forwards, runs the TCP callbacks of the HTTP server, and     *)
(* http_recv and http_sent read the served file: fs_open, fs_read, down to *)
(* virtio_blk_read.  The receive loop that made the call is kept in        *)
(* trap.cb until the callback returns; the callback itself is at "idle",   *)
(* from where it may call virtio_blk_read.  Both the poll of the main loop *)
(* and the interrupt handler run virtio_net_input.                         *)
(***************************************************************************)
InCallback ==
    /\ trap.cb # << >>
    /\ trap.cb[Len(trap.cb)].irq = trap.active

http_callback ==
    /\ pc = "rx_ring"
    /\ input_log # << >>
    /\ ~InCallback
    /\ trap' = [trap EXCEPT
                  !.cb = Append(@, [pc |-> pc, loc |-> loc, irq |-> trap.active])]
    /\ pc' = "idle"
    /\ loc' = NoLoc
    /\ mmio_w' = NoWrite
    /\ UNCHANGED <<blkvars, netvars, ret, fenced, notified, nsub, call, lastw,
                   scenario, hs>>

http_callback_ret ==
    /\ pc = "idle"
    /\ InCallback
    /\ pc' = trap.cb[Len(trap.cb)].pc
    /\ loc' = trap.cb[Len(trap.cb)].loc
    /\ trap' = [trap EXCEPT !.cb = SubSeq(@, 1, Len(@) - 1)]
    /\ mmio_w' = NoWrite
    /\ UNCHANGED <<blkvars, netvars, ret, fenced, notified, nsub, call, lastw,
                   scenario, hs>>

\* http_sent: fs_read(hs->file, hs->buf, HTTP_BUF_SIZE)
http_sent ==
    /\ InCallback
    /\ nsub["blk"] < MaxNestReq
    /\ \E sector \in {1, 2} : virtio_blk_read(sector, 1)

(***************************************************************************)
(* The web server's main loop under preemption: virtio_net_poll from the   *)
(* main loop, the interrupt handler between any two steps, and file reads  *)
(* from the callbacks of both.                                             *)
(***************************************************************************)
NextNested ==
    \/ ~InCallback /\ ~trap.active /\ virtio_net_poll
    \/ http_callback
    \/ http_callback_ret
    \/ http_sent
    \/ virtio_blk_read_loop
    \/ virtio_blk_read_ret
    \/ submit_request_entry
    \/ submit_request_ring
    \/ submit_request_fence
    \/ submit_request_idx
    \/ submit_request_notify
    \/ wait_for_completion
    \/ submit_request_free
    \/ rx_queue.last_used_idx < MaxIrqDrain /\ virtio_net_tx_complete
    \/ rx_queue.last_used_idx < MaxIrqDrain /\ \E pbuf_ok \in BOOLEAN :
                                                 virtio_net_input(pbuf_ok)
    \/ virtio_net_input_ring
    \/ virtio_net_input_fence
    \/ virtio_net_input_idx
    \/ virtio_net_input_adv
    \/ RxCompleted < MaxNestRx /\ \E im \in RxImages : DevRx(im.slot, im.wlen)
    \/ DevBlk(VIRTIO_BLK_S_OK)
    \/ TrapStep
    \/ PlicGateway
    \/ PlicOther

SpecNested == InitIrq /\ [][NextNested]_vars

\* where a block call is before its chain is submitted
BlkStartPcs == {"rd_loop", "wr_loop", "sr_entry", "sr_ring", "sr_fence",
                "sr_idx", "fl_ring", "fl_fence", "fl_idx"}

(***************************************************************************)
(* C33 -- the block scratch state is stable while a request is in flight.  *)
(* From the submission of a chain (avail.idx incremented) to its           *)
(* completion (used.idx incremented by the device) no step of the driver   *)
(* changes req_header, req_status or data_buffer, no block call is at or   *)
(* enters the steps that lead to a submission, and no second chain is      *)
(* submitted.                                                              *)
(***************************************************************************)
C33_BlockScratchStable ==
    [][Unconsumed(req_queue) >= 1 =>
          /\ req_queue'.used_idx = req_queue.used_idx =>
                /\ req_header' = req_header
                /\ req_status' = req_status
                /\ data_buffer' = data_buffer
          /\ pc' \notin BlkStartPcs
          /\ Unconsumed(req_queue') <= 1
      ]_vars


(***************************************************************************)
(* The FIFO device with the used-ring update and the raise of              *)
(* InterruptStatus as two steps: the device first publishes the used       *)
(* entry (hs.owed: it has still to raise the status for what it            *)
(* published), then sets the status.                                       *)
(***************************************************************************)
DevTxUpdate ==
    /\ tx_queue.used_idx # tx_queue.avail_idx
    /\ tx_queue' = PushUsed(tx_queue,
                            tx_queue.avail_ring[tx_queue.used_idx % QUEUE_SIZE], 0)
    /\ hs' = [hs EXCEPT !.owed = TRUE]
    /\ UNCHANGED <<rx_queue, tx_buffers, rx_buffers, net_int, input_log, pc,
                   loc, ret, mmio_w, fenced, notified, nsub>>
    /\ UNCHANGED <<blkvars, scenario, trap, call, lastw>>

DevRxUpdate(slot, wlen) ==
    /\ rx_queue.used_idx # rx_queue.avail_idx
    /\ LET head == rx_queue.avail_ring[rx_queue.used_idx % QUEUE_SIZE]
       IN /\ rx_buffers' =
               [rx_buffers EXCEPT ![rx_queue.descs[head].addr - RX_BUF_BASE] = slot]
          /\ rx_queue' = PushUsed(rx_queue, head, wlen)
    /\ hs' = [hs EXCEPT !.owed = TRUE]
    /\ UNCHANGED <<tx_queue, tx_buffers, net_int, input_log, pc, loc, ret,
                   mmio_w, fenced, notified, nsub>>
    /\ UNCHANGED <<blkvars, scenario, trap, call, lastw>>

DevRaise ==
    /\ hs.owed
    /\ net_int' = 1
    /\ hs' = [hs EXCEPT !.owed = FALSE]
    /\ UNCHANGED <<tx_queue, rx_queue, tx_buffers, rx_buffers, input_log, pc,
                   loc, ret, mmio_w, fenced, notified, nsub>>
    /\ UNCHANGED <<blkvars, scenario, trap, call, lastw>>

(***************************************************************************)
(* The main loop of the web server on the network device: it calls         *)
(* virtio_net_poll for ever, and transmits now and then.  Whatever the     *)
(* driver has started it goes on with, a poll that finds the status raised *)
(* is eventually made, and the device raises the status it owes.           *)
(***************************************************************************)
WakeCall ==
    \/ virtio_net_poll
    \/ \E f \in TxFrames :
         /\ ~FrameTooLarge(f)
         /\ nsub["tx"] < MaxWakeTx
         /\ virtio_net_output(f)

WakeDev ==
    \/ DevTxUpdate
    \/ \E im \in RxImages :
         RxCompleted < MaxWakeRx /\ DevRxUpdate(im.slot, im.wlen)
    \/ DevRaise

NextWake == WakeCall \/ NetStep \/ WakeDev

SpecWake ==
    /\ InitLive
    /\ [][NextWake]_vars
    /\ WF_vars(virtio_net_poll)
    /\ WF_vars(NetStep)
    /\ WF_vars(DevRaise)

(***************************************************************************)
(* C34 -- no lost wake-up on the network device.  With a device that       *)
(* raises InterruptStatus after each update of a used ring and a main loop *)
(* that goes on polling, the n-th RX buffer the device completes is        *)
(* eventually taken by the driver and posted again, and the n-th TX        *)
(* descriptor the device completes is eventually reclaimed, although the   *)
(* poll drains only when it reads a nonzero status and acknowledges the    *)
(* status before it drains.                                                *)
(***************************************************************************)
C34_NoLostWakeup ==
    /\ \A n \in 1 .. MaxWakeRx :
          (rx_queue.used_idx >= n)
             ~> (rx_queue.last_used_idx >= n
                    /\ rx_queue.avail_idx >= QUEUE_SIZE \div 2 + n)
    /\ \A n \in 1 .. MaxWakeTx :
          (tx_queue.used_idx >= n)
             ~> (tx_queue.last_used_idx >= n /\ tx_queue.num_free >= n)

\* the poll has acknowledged the status and is in its receive pass; the
\* device has published a second RX buffer and a TX chain meanwhile and has
\* not yet raised the status for them
C34_Witness ==
    /\ pc = "rx_ring"
    /\ loc.op = "poll"
    /\ net_int = 0
    /\ hs.owed
    /\ rx_queue.used_idx = 2
    /\ rx_queue.last_used_idx = 0
    /\ Completed(tx_queue) = 1

====
